---- MODULE Spec2Model ----
(***************************************************************************)
(* Document-processing pipeline of the amplify template: Upload Initiator, *)
(* Sidecar Store, Ingestion Trigger, Status Poller and Extraction Worker.  *)
(* Strings that the code parses (storage keys, document ids, error         *)
(* messages) are sequences of tokens; the separators '/', '-' and ', ' are *)
(* tokens of their own, so split and join are computed as the code does.   *)
(***************************************************************************)
EXTENDS Integers, Sequences, FiniteSets, TLC

(* ------------------------------ bounds --------------------------------- *)
MaxDocs == 1
MaxTime == 15
NumAppenders == 2
NumTriggers == 1
NumPollers == 2
MaxRequests == 1
MaxBatch == 2
MaxAttempts == 2
MaxInvocations == 1
MaxDeliveries == 3

(* ------------------------- program constants --------------------------- *)
MaxUploadSize == 62914560
IndexingDelaySeconds == 15
UrlExpirySeconds == 3600
ScanPageLimit == 2

Absent == "absent"
None == <<>>
Some(x) == <<x>>
Users == {<<"u1">>}
Filenames == {<<"test", ".txt">>}
DocumentTypes == {<<"wellness_plan">>, <<"iep">>}
FileSizes == {2000, MaxUploadSize + 1}
valid_types ==
  {<<"wellness_plan">>, <<"fitness_assessment">>, <<"health_record">>,
   <<"nutrition_plan">>, <<"other">>}

(* uuid.uuid4(): five hex groups joined by '-' *)
Uuids ==
  << <<"a1", "-", "a2", "-", "a3", "-", "a4", "-", "a5">>,
     <<"b1", "-", "b2", "-", "b3", "-", "b4", "-", "b5">>,
     <<"c1", "-", "c2", "-", "c3", "-", "c4", "-", "c5">>,
     <<"d1", "-", "d2", "-", "d3", "-", "d4", "-", "d5">> >>

VARIABLES now,                                   \* wall clock, seconds
          objects, processing, audit, metadata, extracted,   \* object storage
          table, activityLog,                    \* document database, activity log
          uploadResp, nextUuid, uploadReq,       \* Upload Initiator
          app, lastWriter,                       \* append_processing_status calls
          jobs, tokenJob,                        \* ingestion service
          trig, nextRequest, workQ,              \* Ingestion Trigger invocations
          feed,                                  \* change-notification feed
          poll,                                  \* Status Poller runs
          statusResp, analysisResp               \* Status Reader, Extraction Worker

s3Vars == <<objects, processing, audit, metadata, extracted>>
dbVars == <<table, activityLog>>
uploadVars == <<uploadResp, nextUuid, uploadReq>>
appVars == <<app, lastWriter>>
svcVars == <<jobs, tokenJob>>
trigVars == <<trig, nextRequest, workQ>>
respVars == <<statusResp, analysisResp>>
vars == <<now, s3Vars, dbVars, uploadVars, appVars, svcVars, trigVars, feed, poll,
          respVars>>

(* ----------------------------- Sidecar Store --------------------------- *)
SIDECAR_TYPES ==
  [metadata |-> ".metadata.json", extracted |-> ".extracted.json",
   processing |-> ".processing.json", insights |-> ".insights.json",
   audit |-> ".audit.json"]

get_sidecar_key(document_s3_key, sidecar_type) ==
  document_s3_key \o <<SIDECAR_TYPES[sidecar_type]>>

(* read_sidecar: <<payload>>, or NoSuchKey (the code's None) *)
NoSuchKey == <<>>

read_sidecar(store, document_s3_key, sidecar_type) ==
  LET k == get_sidecar_key(document_s3_key, sidecar_type)
  IN  IF k \in DOMAIN store THEN <<store[k]>> ELSE NoSuchKey

(* write_sidecar: put_object overwrites the whole object *)
write_sidecar(store, document_s3_key, sidecar_type, data) ==
  LET k == get_sidecar_key(document_s3_key, sidecar_type)
  IN  [x \in (DOMAIN store) \cup {k} |-> IF x = k THEN data ELSE store[x]]

(* the payload append_processing_status starts from (line 128) *)
ProcessingOrDefault(read) ==
  IF read = NoSuchKey
    THEN [statusChain |-> <<>>, currentStatus |-> "pending", errors |-> <<>>]
    ELSE read[1]

(* the in-memory mutation of append_processing_status (lines 134-149) *)
PrependInsteadOfAppend(processing_data, status, details, error_info, ts) ==
  [statusChain |-> <<[status |-> status, timestamp |-> ts, details |-> details]>>
                     \o processing_data.statusChain,
   currentStatus |-> status,
   errors |-> processing_data.errors]

KeepCurrentStatus(processing_data, status, details, error_info, ts) ==
  [statusChain |-> Append(processing_data.statusChain,
                          [status |-> status, timestamp |-> ts, details |-> details]),
   currentStatus |-> processing_data.currentStatus,
   errors |-> processing_data.errors]

AppendToProcessingData(processing_data, status, details, error_info, ts) ==
  [statusChain |-> Append(processing_data.statusChain,
                          [status |-> status, timestamp |-> ts, details |-> details]),
   currentStatus |-> status,
   errors |-> IF error_info # Absent
                THEN Append(processing_data.errors,
                            [timestamp |-> ts, error |-> error_info])
                ELSE processing_data.errors]

(* ---------------------------- Upload Initiator ------------------------- *)
UploadS3Key(user_id, document_type, document_id, filename) ==
  <<"users", "/">> \o user_id \o <<"/">> \o document_type \o <<"/">>
    \o document_id \o <<"-">> \o filename

InitialProcessingSidecar ==
  [statusChain |-> <<[status |-> "upload_initiated", timestamp |-> now,
                      details |-> "Presigned URL generated, awaiting upload"]>>,
   currentStatus |-> "upload_initiated",
   errors |-> <<>>]

InitialAuditSidecar(user_id, document_id, filename) ==
  [events |-> <<[timestamp |-> now, action |-> "upload_initiated", userId |-> user_id]>>]

RecordInProgress(s3_key) ==
  [s3Key |-> Some(s3_key), currentStatus |-> "ingestion_in_progress",
   ingestionJobId |-> "job-1", indexingDelayUntil |-> None, errorMessage |-> None,
   extractionConfidence |-> Absent, createdAt |-> Some(now), updatedAt |-> now]

InitialRecord(s3_key) ==
  [s3Key |-> Some(s3_key), currentStatus |-> "upload_initiated",
   ingestionJobId |-> Absent, indexingDelayUntil |-> None, errorMessage |-> None,
   extractionConfidence |-> Absent, createdAt |-> Some(now), updatedAt |-> now]

PutItem(tbl, key, item) ==
  [x \in (DOMAIN tbl) \cup {key} |-> IF x = key THEN item ELSE tbl[x]]

(* the fields of the response body the client acts on *)
NoResponse ==
  [statusCode |-> 0, s3Key |-> None, documentId |-> None, uploadUrl |-> None,
   expiresIn |-> None]

RejectAfterLogging(code) ==
  /\ uploadResp' = [NoResponse EXCEPT !.statusCode = code]
  /\ activityLog' = Append(activityLog, <<"rejected">>)
  /\ UNCHANGED <<now, feed, respVars, s3Vars, table, nextUuid, appVars, svcVars, trigVars, poll>>

UploadRejected(code) ==
  /\ uploadResp' = [NoResponse EXCEPT !.statusCode = code]
  /\ UNCHANGED <<now, feed, respVars, s3Vars, dbVars, nextUuid, appVars, svcVars, trigVars, poll>>

Upload_lambda_handler(user_id, filename, document_type, file_size) ==
  IF filename = <<>> THEN UploadRejected(400)
  ELSE IF file_size > MaxUploadSize THEN UploadRejected(400)
  ELSE IF document_type \notin valid_types THEN UploadRejected(400)
  ELSE
    /\ nextUuid <= MaxDocs
    /\ LET document_id == Uuids[nextUuid]
           s3_key == UploadS3Key(user_id, document_type, document_id, filename)
       IN  /\ metadata' = write_sidecar(metadata, s3_key, "metadata",
                            [documentId |-> document_id, userId |-> user_id,
                             documentType |-> document_type, s3Key |-> s3_key])
           /\ processing' = write_sidecar(processing, s3_key, "processing",
                                          InitialProcessingSidecar)
           /\ audit' = write_sidecar(audit, s3_key, "audit",
                                     InitialAuditSidecar(user_id, document_id, filename))
           /\ table' = PutItem(table, <<user_id, document_id>>, InitialRecord(s3_key))
           /\ activityLog' = Append(activityLog, <<user_id, "document_upload", document_id>>)
           /\ uploadResp' = [statusCode |-> 200, s3Key |-> Some(s3_key),
                              documentId |-> Some(document_id),
                              uploadUrl |-> Some(<<"put_object">> \o s3_key),
                              expiresIn |-> Some(UrlExpirySeconds)]
    /\ nextUuid' = nextUuid + 1
    /\ UNCHANGED <<now, feed, respVars, objects, extracted, appVars, svcVars, trigVars, poll>>

Upload ==
  \E user_id \in Users, filename \in Filenames \cup {<<>>},
     document_type \in DocumentTypes, file_size \in FileSizes :
       /\ Upload_lambda_handler(user_id, filename, document_type, file_size)
       /\ UNCHANGED uploadReq

(* requests as clients can send them: filenames with '/' and '-', a        *)
(* filename that ends like a sidecar, a missing filename                   *)
RequestFilenames ==
  Filenames \cup {<<"a", "/", "b", ".txt">>, <<"my", "-", "plan", ".pdf">>,
                  <<"notes", ".audit.json">>, <<>>}
RequestTypes == DocumentTypes \cup {<<"other">>}
UploadRequests ==
  [user_id : Users, filename : RequestFilenames, document_type : RequestTypes,
   file_size : FileSizes]

(* one request, kept for comparison with its response *)
UploadRequest ==
  \E q \in UploadRequests :
    /\ Upload_lambda_handler(q.user_id, q.filename, q.document_type, q.file_size)
    /\ uploadReq' = Some(q)

(* lines 258-286 in the order the handler makes them *)
UploadWrites == <<"metadata", "processing", "audit", "record">>

(* a request that passes validation and whose write number `failed` raises: *)
(* the writes before it stay, the except clause of lines 331-342 answers 500 *)
Upload_lambda_handler_raising(user_id, filename, document_type, file_size, failed) ==
  /\ filename # <<>>
  /\ file_size <= MaxUploadSize
  /\ document_type \in valid_types
  /\ nextUuid <= MaxDocs
  /\ LET document_id == Uuids[nextUuid]
         s3_key == UploadS3Key(user_id, document_type, document_id, filename)
     IN  /\ metadata' = IF failed > 1
                          THEN write_sidecar(metadata, s3_key, "metadata",
                                 [documentId |-> document_id, userId |-> user_id,
                                  documentType |-> document_type, s3Key |-> s3_key])
                          ELSE metadata
         /\ processing' = IF failed > 2
                            THEN write_sidecar(processing, s3_key, "processing",
                                               InitialProcessingSidecar)
                            ELSE processing
         /\ audit' = IF failed > 3
                       THEN write_sidecar(audit, s3_key, "audit",
                              InitialAuditSidecar(user_id, document_id, filename))
                       ELSE audit
  /\ uploadResp' = [NoResponse EXCEPT !.statusCode = 500]
  /\ nextUuid' = nextUuid + 1
  /\ UNCHANGED <<now, feed, respVars, objects, extracted, dbVars, appVars, svcVars, trigVars, poll>>

UploadRaises ==
  \E q \in UploadRequests, failed \in 1..Len(UploadWrites) :
    /\ Upload_lambda_handler_raising(q.user_id, q.filename, q.document_type,
                                     q.file_size, failed)
    /\ uploadReq' = Some(q)

(* ------------------------------- time ---------------------------------- *)
Tick ==
  /\ now + IndexingDelaySeconds <= MaxTime
  /\ now' = now + IndexingDelaySeconds
  /\ UNCHANGED <<feed, respVars, s3Vars, dbVars, uploadVars, appVars, svcVars, trigVars, poll>>

(* ------------- append_processing_status, called by any stage ----------- *)
(* (status, details, error_info) triples the pipeline stages pass:         *)
(* ingest/index.py 206 and document-analysis/index.py 416, 489.            *)
AppendCalls ==
  { <<"ingestion_started", "Starting Knowledge Base ingestion", Absent>>,
    <<"ai_analysis_started", "Starting AI extraction with Claude", Absent>>,
    <<"ai_analysis_failed", "Error", "unexpected">> }

(* with: the calls that had read the same sidecar and not yet written it   *)
(* when this call read it                                                  *)
IdleAppender ==
  [pc |-> "idle", s3_key |-> <<>>, call |-> <<>>, data |-> NoSuchKey,
   with |-> {}, result |-> Absent]

UploadedKeys == {table[k].s3Key[1] : k \in {x \in DOMAIN table : table[x].s3Key # None}}

(* put_object carries no precondition: the write is never refused *)
ConditionalWrite(stored, read) == stored = read

WriteAllowed(stored, read) == TRUE

(* the whole call in one step: read, mutate, write (lines 128-151) *)
append_processing_status(store, document_s3_key, status, details, error_info, ts) ==
  write_sidecar(store, document_s3_key, "processing",
    AppendToProcessingData(
      ProcessingOrDefault(read_sidecar(store, document_s3_key, "processing")),
      status, details, error_info, ts))

NoteWriter(k, a) ==
  [x \in (DOMAIN lastWriter) \cup {k} |-> IF x = k THEN a ELSE lastWriter[x]]

(* line 128: the read half of the read-modify-write *)
AppendRead(a) ==
  /\ app[a].pc = "idle"
  /\ \E k \in UploadedKeys, c \in AppendCalls :
       /\ app' = [app EXCEPT ![a] = [pc |-> "read", s3_key |-> k, call |-> c,
                    data |-> read_sidecar(processing, k, "processing"),
                    with |-> {b \in DOMAIN app : app[b].pc = "read" /\ app[b].s3_key = k},
                    result |-> Absent]]
  /\ UNCHANGED <<now, feed, respVars, s3Vars, dbVars, uploadVars, lastWriter, svcVars, trigVars, poll>>

(* lines 134-151: mutate what was read and overwrite the object *)
AppendWrite(a) ==
  /\ app[a].pc = "read"
  /\ LET k == app[a].s3_key
         c == app[a].call
         ok == WriteAllowed(read_sidecar(processing, k, "processing"), app[a].data)
     IN  /\ processing' =
              IF ok
                THEN write_sidecar(processing, k, "processing",
                       AppendToProcessingData(ProcessingOrDefault(app[a].data),
                                              c[1], c[2], c[3], now))
                ELSE processing
         /\ lastWriter' = IF ok THEN NoteWriter(k, a) ELSE lastWriter
         /\ app' = [app EXCEPT ![a] = [@ EXCEPT !.pc = "done",
                      !.result = IF ok THEN "ok" ELSE "error"]]
  /\ UNCHANGED <<now, feed, respVars, objects, audit, metadata, extracted, dbVars, uploadVars,
                 svcVars, trigVars, poll>>

(* a call that runs without any other call in between *)
AppendCall(a) ==
  /\ app[a].pc = "idle"
  /\ \E k \in UploadedKeys, c \in AppendCalls :
       /\ processing' = append_processing_status(processing, k, c[1], c[2], c[3], now)
       /\ lastWriter' = NoteWriter(k, a)
       /\ app' = [app EXCEPT ![a] = [pc |-> "done", s3_key |-> k, call |-> c,
                    data |-> read_sidecar(processing, k, "processing"),
                    with |-> {}, result |-> "ok"]]
  /\ UNCHANGED <<now, feed, respVars, objects, audit, metadata, extracted, dbVars, uploadVars,
                 svcVars, trigVars, poll>>

(* --------------------------- string helpers --------------------------- *)
(* str.split(sep) on a token sequence: the segments between separators *)
RECURSIVE Split(_, _)
Split(s, sep) ==
  IF \A i \in 1..Len(s) : s[i] # sep
    THEN <<s>>
    ELSE LET i == CHOOSE j \in 1..Len(s) :
                    s[j] = sep /\ \A m \in 1..(j - 1) : s[m] # sep
         IN  <<SubSeq(s, 1, i - 1)>> \o Split(SubSeq(s, i + 1, Len(s)), sep)

(* sep.join(parts) *)
RECURSIVE Join(_, _)
Join(parts, sep) ==
  IF Len(parts) = 0 THEN <<>>
  ELSE IF Len(parts) = 1 THEN parts[1]
  ELSE parts[1] \o <<sep>> \o Join(Tail(parts), sep)

(* tokens that begin with '.' *)
DotTokens ==
  {".txt", ".pdf", ".metadata.json", ".extracted.json", ".processing.json",
   ".insights.json", ".audit.json"}

(* s.split('.')[0]: what precedes the first '.' *)
BeforeFirstDot(s) ==
  IF \A i \in 1..Len(s) : s[i] \notin DotTokens
    THEN s
    ELSE LET i == CHOOSE j \in 1..Len(s) :
                    s[j] \in DotTokens /\ \A m \in 1..(j - 1) : s[m] \notin DotTokens
         IN  SubSeq(s, 1, i - 1)

(* ---------------------------- ingestion service ------------------------ *)
JobIds ==
  <<"job-1", "job-2", "job-3", "job-4", "job-5", "job-6", "job-7", "job-8",
    "job-9", "job-10", "job-11", "job-12">>

FailureReasonLists ==
  { [present |-> FALSE, reasons |-> <<>>],
    [present |-> TRUE, reasons |-> << <<"quota exceeded">> >>],
    [present |-> TRUE, reasons |-> << <<"quota exceeded">>, <<"bad document">> >>] }

(* start_ingestion_job: a request whose clientToken matches an earlier      *)
(* request starts nothing new and answers with the job of that request      *)
start_ingestion_job(clientToken) ==
  IF clientToken \in DOMAIN tokenJob
    THEN /\ UNCHANGED <<jobs, tokenJob>>
    ELSE LET id == JobIds[Cardinality(DOMAIN jobs) + 1]
         IN  /\ jobs' = [x \in (DOMAIN jobs) \cup {id} |->
                           IF x = id
                             THEN [status |-> "STARTING",
                                   failureReasons |-> [present |-> FALSE, reasons |-> <<>>]]
                             ELSE jobs[x]]
             /\ tokenJob' = [x \in (DOMAIN tokenJob) \cup {clientToken} |->
                               IF x = clientToken THEN id ELSE tokenJob[x]]

(* the job the service runs on its own: STARTING, IN_PROGRESS, then         *)
(* COMPLETE or FAILED with failure reasons                                  *)
JobAdvance(j) ==
  /\ j \in DOMAIN jobs
  /\ \/ /\ jobs[j].status = "STARTING"
        /\ jobs' = [jobs EXCEPT ![j].status = "IN_PROGRESS"]
     \/ /\ jobs[j].status = "IN_PROGRESS"
        /\ jobs' = [jobs EXCEPT ![j].status = "COMPLETE"]
     \/ /\ jobs[j].status = "IN_PROGRESS"
        /\ \E fr \in FailureReasonLists :
             jobs' = [jobs EXCEPT ![j] = [status |-> "FAILED", failureReasons |-> fr]]
  /\ UNCHANGED <<now, feed, respVars, s3Vars, dbVars, uploadVars, appVars, tokenJob, trigVars, poll>>

(* --------------------- out-of-band upload of the bytes ------------------ *)
(* the client PUTs the document to the presigned URL *)
(* the feed after objects were created under `keys`: one more entry       *)
(* {eventName, key} for each key that has none pending; origin is who      *)
(* wrote the object                                                        *)
Notify(fd, event_name, keys, origin) ==
  fd \cup {[eventName |-> event_name, key |-> k, origin |-> origin] : k \in keys}

ClientPut(k) ==
  /\ k \in UploadedKeys
  /\ k \notin DOMAIN objects
  /\ objects' = [x \in (DOMAIN objects) \cup {k} |->
                   IF x = k THEN [userId |-> None] ELSE objects[x]]
  /\ feed' = Notify(feed, "ObjectCreated:Put", {k}, "client")
  /\ UNCHANGED <<now, respVars, processing, audit, metadata, extracted, dbVars, uploadVars,
                 appVars, svcVars, trigVars, poll>>

(* ---------------------------- Ingestion Trigger ------------------------ *)
(* any(s3_key.endswith(suffix) for suffix in SIDECAR_TYPES.values()) *)
MetadataSuffixOnly(s3_key) ==
  Len(s3_key) > 0 /\ s3_key[Len(s3_key)] = SIDECAR_TYPES["metadata"]

is_sidecar_file(s3_key) ==
  \E t \in DOMAIN SIDECAR_TYPES :
    Len(s3_key) > 0 /\ s3_key[Len(s3_key)] = SIDECAR_TYPES[t]

(* the key without its sidecar suffix, or None for a key that has none *)
StripAtFirstSuffix(sidecar_s3_key) ==
  IF \E i \in 1..Len(sidecar_s3_key) :
       \E t \in DOMAIN SIDECAR_TYPES : sidecar_s3_key[i] = SIDECAR_TYPES[t]
    THEN LET i == CHOOSE j \in 1..Len(sidecar_s3_key) :
                    /\ \E t \in DOMAIN SIDECAR_TYPES :
                         sidecar_s3_key[j] = SIDECAR_TYPES[t]
                    /\ \A n \in 1..(j - 1) :
                         \A t \in DOMAIN SIDECAR_TYPES :
                           sidecar_s3_key[n] # SIDECAR_TYPES[t]
         IN  Some(SubSeq(sidecar_s3_key, 1, i - 1))
    ELSE None

get_document_from_sidecar_key(sidecar_s3_key) ==
  IF \E t \in DOMAIN SIDECAR_TYPES :
       Len(sidecar_s3_key) > 0
         /\ sidecar_s3_key[Len(sidecar_s3_key)] = SIDECAR_TYPES[t]
    THEN Some(SubSeq(sidecar_s3_key, 1, Len(sidecar_s3_key) - 1))
    ELSE None

(* parts[1] of the key split on '/', or None *)
extract_user_id_from_s3_key(s3_key) ==
  LET parts == Split(s3_key, "/")
  IN  IF Len(parts) >= 2 /\ parts[1] = <<"users">> THEN Some(parts[2]) ELSE None

extract_document_id_from_s3_key(s3_key) ==
  LET segs == Split(s3_key, "/")
      filename == segs[Len(segs)]
      parts == Split(filename, "-")
  IN  IF \E i \in 1..Len(filename) : filename[i] = "-"
        THEN IF Len(parts) >= 5
               THEN Join(SubSeq(parts, 1, 5), "-")
               ELSE Join(SubSeq(parts, 1, Len(parts) - 1), "-")
        ELSE BeforeFirstDot(filename)

(* `if user_id:` is false for None and for the empty string *)
Truthy(opt) == opt # None /\ opt[1] # <<>>

EmptyItem ==
  [s3Key |-> None, currentStatus |-> Absent, ingestionJobId |-> Absent,
   indexingDelayUntil |-> None, errorMessage |-> None,
   extractionConfidence |-> Absent, createdAt |-> None, updatedAt |-> 0]

(* update_item creates the item when the key is not in the table *)
ItemOrEmpty(tbl, key) == IF key \in DOMAIN tbl THEN tbl[key] ELSE EmptyItem

update_document_status(tbl, user_id, s3_key, status, ingestion_job_id) ==
  IF ~Truthy(user_id) THEN tbl
  ELSE LET key == <<user_id[1], extract_document_id_from_s3_key(s3_key)>>
           old == ItemOrEmpty(tbl, key)
       IN  PutItem(tbl, key,
             [old EXCEPT !.currentStatus = status, !.updatedAt = now,
                         !.ingestionJobId =
                            IF ingestion_job_id # Absent THEN ingestion_job_id ELSE @])

append_audit_event(store, document_s3_key, action, user_id, ts) ==
  LET read == read_sidecar(store, document_s3_key, "audit")
      audit_data == IF read = NoSuchKey THEN [events |-> <<>>] ELSE read[1]
  IN  write_sidecar(store, document_s3_key, "audit",
        [events |-> Append(audit_data.events,
                           [timestamp |-> ts, action |-> action, userId |-> user_id])])

(* add_user_id_metadata_to_s3: copy the object onto itself with new        *)
(* metadata; a missing object is logged and ignored                        *)
add_user_id_metadata_to_s3(objs, s3_key, user_id) ==
  IF s3_key \in DOMAIN objs
    THEN [objs EXCEPT ![s3_key] = [userId |-> Some(user_id)]]
    ELSE objs

(* event names that start with 'ObjectCreated' *)
CreationEvents == {"ObjectCreated:Put", "ObjectCreated:Copy"}

(* the payload lambda_handler returns as JSON: ingestionJobs is the number *)
(* of job details in it (none, 'ingestionJob', or 'ingestionJobs')         *)
NoPayload == [status |-> Absent, error |-> Absent, ingestionJobs |-> 0]

IdleTrigger ==
  [pc |-> "idle", request_id |-> 0, records |-> <<>>, i |-> 0,
   ingestion_job_id |-> Absent, ingestion_jobs |-> 0, attempt |-> 0,
   response |-> NoPayload]

(* the notifications the feed can deliver *)
EventChoices ==
  {[eventName |-> "ObjectCreated:Put", key |-> k] : k \in DOMAIN objects}
  \cup {[eventName |-> "ObjectCreated:Put", key |-> k] : k \in DOMAIN processing}
  \cup {[eventName |-> "ObjectRemoved:Delete", key |-> k] : k \in DOMAIN objects}

Batches(maxlen) ==
  UNION {[1..n -> EventChoices] : n \in 1..maxlen}

(* a delivery starts an invocation with a request id of its own *)
TriggerInvoke(t, maxlen) ==
  /\ trig[t].pc \in {"idle", "done"}
  /\ nextRequest <= MaxRequests
  /\ \E records \in Batches(maxlen) :
       trig' = [trig EXCEPT ![t] = [IdleTrigger EXCEPT !.pc = "record",
                  !.request_id = nextRequest, !.records = records, !.i = 1,
                  !.attempt = 1]]
  /\ nextRequest' = nextRequest + 1
  /\ UNCHANGED <<now, feed, respVars, s3Vars, dbVars, uploadVars, appVars, svcVars, workQ, poll>>

(* the platform retries a finished invocation: same event, same request id *)
TriggerRedeliver(t) ==
  /\ trig[t].pc = "done"
  /\ trig[t].attempt < MaxAttempts
  /\ trig' = [trig EXCEPT ![t] = [IdleTrigger EXCEPT !.pc = "record",
                !.request_id = trig[t].request_id, !.records = trig[t].records,
                !.i = 1, !.attempt = trig[t].attempt + 1]]
  /\ UNCHANGED <<now, feed, respVars, s3Vars, dbVars, uploadVars, appVars, svcVars, nextRequest, workQ, poll>>

(* process_s3_record lines 172-206: classify, tag, upload_complete,        *)
(* ingestion_started with its audit event                                  *)
TriggerRecordStart(t) ==
  /\ trig[t].pc = "record"
  /\ trig[t].i <= Len(trig[t].records)
  /\ LET record == trig[t].records[trig[t].i]
         s3_key == record.key
         user_id == extract_user_id_from_s3_key(s3_key)
     IN  IF record.eventName \notin CreationEvents \/ is_sidecar_file(s3_key)
           THEN /\ trig' = [trig EXCEPT ![t].i = @ + 1]
                /\ UNCHANGED <<s3Vars, dbVars, feed>>
           ELSE /\ objects' = IF Truthy(user_id)
                                THEN add_user_id_metadata_to_s3(objects, s3_key, user_id[1])
                                ELSE objects
                /\ table' = update_document_status(table, user_id, s3_key,
                                                   "upload_complete", Absent)
                /\ processing' = append_processing_status(processing, s3_key,
                                   "ingestion_started",
                                   "Starting Knowledge Base ingestion", Absent, now)
                /\ audit' = IF Truthy(user_id)
                              THEN append_audit_event(audit, s3_key, "ingestion_started",
                                                      user_id[1], now)
                              ELSE audit
                /\ feed' = Notify(
                             Notify(feed, "ObjectCreated:Copy",
                                    IF Truthy(user_id) /\ s3_key \in DOMAIN objects
                                      THEN {s3_key} ELSE {}, "trigger"),
                             "ObjectCreated:Put",
                             {get_sidecar_key(s3_key, "processing")}
                               \cup (IF Truthy(user_id)
                                       THEN {get_sidecar_key(s3_key, "audit")} ELSE {}),
                             "trigger")
                /\ trig' = [trig EXCEPT ![t].pc = "job"]
                /\ UNCHANGED <<metadata, extracted, activityLog>>
  /\ UNCHANGED <<now, respVars, uploadVars, appVars, svcVars, nextRequest, workQ, poll>>

(* lines 259-269: the payload after the loop *)
SuccessPayload(t) ==
  [status |-> "success", error |-> Absent, ingestionJobs |-> trig[t].ingestion_jobs]

(* lines 271-274: {'error': str(e)} *)
ErrorPayloadWithJobs(t) ==
  [status |-> Absent, error |-> "start_ingestion_job raised",
   ingestionJobs |-> trig[t].ingestion_jobs]

ErrorPayload(t) ==
  [status |-> Absent, error |-> "start_ingestion_job raised", ingestionJobs |-> 0]

(* line 212: 'clientToken': context.aws_request_id *)
TokenPerCall(t) == trig[t].request_id * 100 + trig[t].attempt * 10 + trig[t].i

ClientToken(t) == trig[t].request_id

(* lines 209-218: start the ingestion job; when the call raises, the        *)
(* exception leaves process_s3_record and the loop of lambda_handler and    *)
(* is answered by the handler's except clause (lines 271-274)               *)
TriggerStartJob(t) ==
  /\ trig[t].pc = "job"
  /\ \/ /\ start_ingestion_job(ClientToken(t))
        /\ trig' = [trig EXCEPT ![t].pc = "finish",
                                ![t].ingestion_job_id = tokenJob'[ClientToken(t)]]
     \/ /\ trig' = [trig EXCEPT ![t].pc = "done", ![t].response = ErrorPayload(t)]
        /\ UNCHANGED svcVars
  /\ UNCHANGED <<now, feed, respVars, s3Vars, dbVars, uploadVars, appVars, nextRequest, workQ, poll>>

(* invoke_document_analysis: one more asynchronous invocation is queued *)
EnqueueAnalysis(q, s3_key) ==
  [x \in (DOMAIN q) \cup {s3_key} |->
     IF x = s3_key THEN (IF x \in DOMAIN q THEN q[x] + 1 ELSE 1) ELSE q[x]]

(* process_s3_record lines 222-235 *)
TriggerRecordFinish(t) ==
  /\ trig[t].pc = "finish"
  /\ LET s3_key == trig[t].records[trig[t].i].key
         user_id == extract_user_id_from_s3_key(s3_key)
     IN  /\ processing' = append_processing_status(processing, s3_key,
                            "ingestion_in_progress", "Ingestion job in progress",
                            Absent, now)
         /\ table' = update_document_status(table, user_id, s3_key,
                       "ingestion_in_progress", trig[t].ingestion_job_id)
         /\ workQ' = EnqueueAnalysis(workQ, s3_key)
         /\ feed' = Notify(feed, "ObjectCreated:Put",
                           {get_sidecar_key(s3_key, "processing")}, "trigger")
  /\ trig' = [trig EXCEPT ![t].pc = "record", ![t].i = @ + 1,
                          ![t].ingestion_jobs = @ + 1]
  /\ UNCHANGED <<now, respVars, objects, audit, metadata, extracted, activityLog, uploadVars,
                 appVars, svcVars, nextRequest, poll>>

(* lambda_handler lines 257-269: every record was handled *)
TriggerReturn(t) ==
  /\ trig[t].pc = "record"
  /\ trig[t].i > Len(trig[t].records)
  /\ trig' = [trig EXCEPT ![t].pc = "done", ![t].response = SuccessPayload(t)]
  /\ UNCHANGED <<now, feed, respVars, s3Vars, dbVars, uploadVars, appVars, svcVars, nextRequest, workQ, poll>>

Triggers == 1..NumTriggers

(* ---------------------------- Extraction Worker ------------------------ *)
(* os.path.splitext(s3_key)[1].lower() *)
FileExtension(s3_key) ==
  LET last == IF Len(s3_key) = 0 THEN "" ELSE s3_key[Len(s3_key)]
  IN  IF last \in {".txt", ".pdf", ".exe"} THEN last
      ELSE IF last \in DotTokens THEN ".json"
      ELSE ""

(* validate_input raises ValueError: TRUE when the input passes; a         *)
(* parameter the event lacks reads as the empty string (lines 320-321)     *)
validate_input(event) ==
  LET s3_key == event.s3Key
      key_parts == Split(s3_key, "/")
  IN  /\ event.s3Bucket # <<>>
      /\ s3_key # <<>>
      /\ Len(key_parts) >= 4
      /\ key_parts[1] = <<"users">>
      /\ FileExtension(s3_key) \in {"", ".pdf", ".txt", ".doc", ".docx"}

(* parts[2] of the key split on '/', or 'other' *)
TypeFromLastFolder(s3_key) ==
  LET parts == Split(s3_key, "/")
  IN  IF Len(parts) >= 3 THEN parts[Len(parts) - 1] ELSE <<"other">>

get_document_type_from_key(s3_key) ==
  LET parts == Split(s3_key, "/")
  IN  IF Len(parts) >= 3 THEN parts[3] ELSE <<"other">>

(* the key update_document_metadata addresses (lines 357-359) *)
AnalysisRecordKey(s3_key) ==
  LET parts == Split(s3_key, "/")
      user_id == IF Len(parts) >= 2 /\ parts[1] = <<"users">>
                   THEN parts[2] ELSE <<"unknown">>
      document_id == Split(parts[Len(parts)], "-")[1]
  IN  <<user_id, document_id>>

update_document_metadata(tbl, s3_key, confidence) ==
  LET key == AnalysisRecordKey(s3_key)
      old == ItemOrEmpty(tbl, key)
  IN  PutItem(tbl, key,
        [old EXCEPT !.currentStatus = "ai_analysis_complete",
                    !.extractionConfidence = confidence, !.updatedAt = now])

(* The model's answer as tokens: "text" is prose, "{" and "}" are braces,  *)
(* a key stands for a member `"key": value`, and a key followed by "{"     *)
(* for a member whose value is an object.                                  *)
MemberKeys == {"summary", "error"}

AiResponses ==
  { <<"text">>,
    <<"{", "summary", "}">>,
    <<"text", "{", "summary", "}", "text">>,
    <<"{", "error", "}">>,
    <<"{", "summary", "{", "error", "}", "}">>,
    <<"{", "text", "}">>,
    <<"}", "text", "{">>,
    <<"{", "summary", "}", "text", "{", "error", "}">>,
    <<"{", "summary", "}", "text", "}">> }

(* str.find: 0-based index of the first occurrence, or -1 *)
Find(text, tok) ==
  IF \E i \in 1..Len(text) : text[i] = tok
    THEN (CHOOSE i \in 1..Len(text) :
            text[i] = tok /\ \A j \in 1..(i - 1) : text[j] # tok) - 1
    ELSE -1

(* str.rfind: 0-based index of the last occurrence, or -1 *)
RFind(text, tok) ==
  IF \E i \in 1..Len(text) : text[i] = tok
    THEN (CHOOSE i \in 1..Len(text) :
            text[i] = tok /\ \A j \in (i + 1)..Len(text) : text[j] # tok) - 1
    ELSE -1

(* braces opened and not closed within the first i tokens *)
Depth(toks, i) ==
  Cardinality({j \in 1..i : toks[j] = "{"}) - Cardinality({j \in 1..i : toks[j] = "}"})

(* json.loads accepts the slice: an object whose members are well formed *)
IsJsonObject(toks) ==
  /\ Len(toks) >= 2
  /\ toks[1] = "{"
  /\ toks[Len(toks)] = "}"
  /\ \A i \in 1..Len(toks) : toks[i] \in MemberKeys \cup {"{", "}"}
  /\ \A i \in 1..(Len(toks) - 1) : Depth(toks, i) >= 1
  /\ Depth(toks, Len(toks)) = 0
  /\ \A i \in 2..Len(toks) : toks[i] = "{" => toks[i - 1] \in MemberKeys

(* the dict json.loads returns: its top-level members *)
JsonLoads(toks) ==
  [k \in {toks[i] : i \in {j \in 1..Len(toks) :
                             toks[j] \in MemberKeys /\ Depth(toks, j) = 1}}
     |-> "value"]

(* invoke_claude_for_extraction lines 287-303: parse the model's answer *)
ParseExtraction(extracted_text) ==
  LET start_idx == Find(extracted_text, "{")
      end_idx == RFind(extracted_text, "}") + 1
      json_str == SubSeq(extracted_text, start_idx + 1, end_idx)
  IN  IF start_idx # -1 /\ end_idx > start_idx
        THEN IF IsJsonObject(json_str)
               THEN JsonLoads(json_str)
               ELSE [raw_response |-> extracted_text, error |-> "Invalid JSON"]
        ELSE [raw_response |-> extracted_text, error |-> "No JSON found"]

(* line 432 *)
ConfidenceFixed(extracted_text, extracted_data) == "0.85"

Confidence(extracted_text, extracted_data) ==
  IF "error" \notin DOMAIN extracted_data THEN "0.85" ELSE "0.50"

(* what get_object and the read can end in for an object that exists:      *)
(* text, undecodable bytes (replaced by a placeholder), no bytes           *)
(* (ValueError), or another exception                                      *)
Downloads == {"text", "binary", "empty", "denied"}

(* what invoke_model ends in: an answer, or an exception *)
AiOutcomes ==
  {[raises |-> FALSE, text |-> r] : r \in AiResponses}
    \cup {[raises |-> TRUE, text |-> <<>>]}

Bucket == <<"docs">>

(* the worker's answer, with the invocation it answers and the number of   *)
(* invocations so far                                                      *)
AnalysisResponse(status_code, status, confidence, event, download, ai, audit_raises) ==
  [statusCode |-> status_code, status |-> status, confidence |-> confidence,
   event |-> event, download |-> download, ai |-> ai, auditRaises |-> audit_raises,
   invocations |-> analysisResp.invocations + 1]

(* invoke_model was not called *)
NotCalled == [raises |-> FALSE, text |-> <<>>]

NoAnalysisResponse ==
  [statusCode |-> 0, status |-> Absent, confidence |-> Absent,
   event |-> [s3Bucket |-> <<>>, s3Key |-> <<>>], download |-> Absent,
   ai |-> NotCalled, auditRaises |-> FALSE,
   invocations |-> 0]

DequeueAnalysis(q, s3_key) ==
  [x \in {y \in DOMAIN q : y # s3_key \/ q[y] > 1} |->
     IF x = s3_key THEN q[x] - 1 ELSE q[x]]

(* update_sidecar_error: nothing when s3_key is None or empty, else one    *)
(* more entry in the processing sidecar                                    *)
update_sidecar_error(store, s3_key, status, error_message) ==
  IF ~Truthy(s3_key) THEN store
  ELSE append_processing_status(store, s3_key[1], status, "Error", error_message, now)

(* one invocation of the worker's lambda_handler; audit_raises: the read   *)
(* or the put_object of append_audit_event at lines 453-459 raises         *)
Analysis_lambda_handler(event, download, ai, audit_raises) ==
  IF ~validate_input(event)
    THEN (* validate_input raised before line 411 assigned s3_key *)
         /\ processing' = update_sidecar_error(processing, None, "validation_failed",
                                               "Validation error")
         /\ analysisResp' = AnalysisResponse(400, "error", Absent,
                                     event, download, ai, FALSE)
         /\ UNCHANGED <<objects, audit, metadata, extracted, dbVars>>
    ELSE
      LET s3_key == event.s3Key
          started == append_processing_status(processing, s3_key, "ai_analysis_started",
                       "Starting AI extraction with Claude", Absent, now)
          fetched == IF s3_key \in DOMAIN objects THEN download ELSE "no_such_key"
          extracted_data == ParseExtraction(ai.text)
          confidence == Confidence(ai.text, extracted_data)
      IN  IF fetched \in {"no_such_key", "empty"}
            THEN /\ processing' = update_sidecar_error(started, Some(s3_key),
                                    "validation_failed", "Validation error")
                 /\ analysisResp' = AnalysisResponse(400, "error", Absent,
                                     event, download, ai, FALSE)
                 /\ UNCHANGED <<objects, audit, metadata, extracted, dbVars>>
          ELSE IF fetched = "denied" \/ ai.raises
            THEN /\ processing' = update_sidecar_error(started, Some(s3_key),
                                    "ai_analysis_failed", "Unexpected error")
                 /\ analysisResp' = AnalysisResponse(500, "error", Absent,
                                     event, download, ai, FALSE)
                 /\ UNCHANGED <<objects, audit, metadata, extracted, dbVars>>
          ELSE IF audit_raises
            THEN (* lines 443-450 have run; the exception of line 453 is   *)
                 (* caught at line 486                                     *)
                 /\ extracted' = write_sidecar(extracted, s3_key, "extracted",
                                   [extractionTimestamp |-> now,
                                    confidence |-> confidence,
                                    documentType |-> get_document_type_from_key(s3_key),
                                    data |-> extracted_data])
                 /\ processing' = update_sidecar_error(
                                    append_processing_status(started, s3_key,
                                      "ai_analysis_complete", "Extraction successful",
                                      Absent, now),
                                    Some(s3_key), "ai_analysis_failed", "Unexpected error")
                 /\ analysisResp' = AnalysisResponse(500, "error", Absent,
                                     event, download, ai, TRUE)
                 /\ UNCHANGED <<objects, audit, metadata, dbVars>>
          ELSE   /\ extracted' = write_sidecar(extracted, s3_key, "extracted",
                                   [extractionTimestamp |-> now,
                                    confidence |-> confidence,
                                    documentType |-> get_document_type_from_key(s3_key),
                                    data |-> extracted_data])
                 /\ processing' = append_processing_status(started, s3_key,
                                    "ai_analysis_complete", "Extraction successful",
                                    Absent, now)
                 /\ audit' = append_audit_event(audit, s3_key, "ai_extraction_complete",
                                                <<"system">>, now)
                 /\ table' = update_document_metadata(table, s3_key, confidence)
                 /\ analysisResp' = AnalysisResponse(200, "success", confidence,
                                     event, download, ai, FALSE)
                 /\ UNCHANGED <<objects, metadata, activityLog>>

(* the calls an invocation gets to, and what each can end in: get_object   *)
(* (line 423) only for a valid event whose object exists, invoke_model     *)
(* (line 426) only when the document was read, append_audit_event (line    *)
(* 453) only when the model answered                                       *)
DownloadsFor(event) ==
  IF validate_input(event) /\ event.s3Key \in DOMAIN objects
    THEN Downloads ELSE {Absent}

AiOutcomesFor(download) ==
  IF download \in {"text", "binary"} THEN AiOutcomes ELSE {NotCalled}

AuditOutcomesFor(download, ai) ==
  IF download \in {"text", "binary"} /\ ~ai.raises THEN BOOLEAN ELSE {FALSE}

(* the asynchronous invocation the Ingestion Trigger has queued *)
AnalysisRun(s3_key) ==
  /\ s3_key \in DOMAIN workQ
  /\ workQ' = DequeueAnalysis(workQ, s3_key)
  /\ LET event == [s3Bucket |-> Bucket, s3Key |-> s3_key]
     IN  \E download \in DownloadsFor(event) :
           \E ai \in AiOutcomesFor(download) :
             \E audit_raises \in AuditOutcomesFor(download, ai) :
               Analysis_lambda_handler(event, download, ai, audit_raises)
  /\ UNCHANGED <<now, feed, statusResp, uploadVars, appVars, svcVars, trig, nextRequest, poll>>

(* events of an invocation made by another caller: a parameter missing,    *)
(* a key of three parts, a disallowed extension, an uploaded key           *)
DirectEvents ==
  {[s3Bucket |-> <<>>, s3Key |-> k] : k \in UploadedKeys}
    \cup {[s3Bucket |-> Bucket, s3Key |-> <<>>]}
    \cup {[s3Bucket |-> Bucket, s3Key |-> <<"users", "/", "u1", "/", "test", ".txt">>]}
    \cup {[s3Bucket |-> Bucket, s3Key |-> SubSeq(k, 1, Len(k) - 1) \o <<".exe">>] :
            k \in UploadedKeys}
    \cup {[s3Bucket |-> Bucket, s3Key |-> k] : k \in UploadedKeys}

AnalysisInvoke ==
  /\ analysisResp.invocations < MaxInvocations
  /\ \E event \in DirectEvents :
       \E download \in DownloadsFor(event) :
         \E ai \in AiOutcomesFor(download) :
           \E audit_raises \in AuditOutcomesFor(download, ai) :
             Analysis_lambda_handler(event, download, ai, audit_raises)
  /\ UNCHANGED <<now, feed, statusResp, uploadVars, appVars, svcVars, trigVars, poll>>

(* ------------------------------ Status Poller -------------------------- *)
IdlePoller == [pc |-> "idle", documents |-> <<>>, i |-> 0, status |-> Absent]

RECURSIVE SetToSeq(_)
SetToSeq(S) ==
  IF S = {} THEN <<>>
  ELSE LET x == CHOOSE y \in S : TRUE IN <<x>> \o SetToSeq(S \ {x})

(* lines 34-42: the items the filtered scan returns, as read at scan time; *)
(* of each item, the attributes the loop reads (lines 47-49, 71-72)        *)
(* A scan call reads the table up to a size limit, applies the filter to   *)
(* what it read and returns a LastEvaluatedKey for the rest; line 34 makes *)
(* one call and line 42 takes its Items.                                   *)
ScanPage ==
  LET all == SetToSeq(DOMAIN table)
  IN  SubSeq(all, 1, IF Len(all) < ScanPageLimit THEN Len(all) ELSE ScanPageLimit)

ScanItems ==
  LET page == SelectSeq(ScanPage,
                LAMBDA k : table[k].currentStatus
                             \in {"ingestion_in_progress", "indexing_wait"})
  IN  [n \in 1..Len(page) |->
         [key |-> page[n],
          item |-> [ingestionJobId |-> table[page[n]].ingestionJobId,
                    currentStatus |-> table[page[n]].currentStatus,
                    indexingDelayUntil |-> table[page[n]].indexingDelayUntil]]]

PollScan(p) ==
  /\ poll[p].pc = "idle"
  /\ poll' = [poll EXCEPT ![p] = [pc |-> "run", documents |-> ScanItems, i |-> 1,
                                  status |-> Absent]]
  /\ UNCHANGED <<now, feed, respVars, s3Vars, dbVars, uploadVars, appVars, svcVars, trigVars>>

(* line 111: ', '.join(failure_reasons), with the default of line 105 *)
FirstReasonOnly(failureReasons) ==
  IF failureReasons.present
    THEN (IF Len(failureReasons.reasons) = 0 THEN <<>> ELSE failureReasons.reasons[1])
    ELSE <<"Unknown error">>

ErrorMessage(failureReasons) ==
  IF failureReasons.present
    THEN Join(failureReasons.reasons, ", ")
    ELSE Join(<< <<"Unknown error">> >>, ", ")

(* lines 68-115: the update for one scanned item and the observed status *)
PollUpdate(tbl, doc, job) ==
  LET old == ItemOrEmpty(tbl, doc.key)
  IN  IF job.status = "COMPLETE"
        THEN IF doc.item.currentStatus = "ingestion_in_progress"
               THEN PutItem(tbl, doc.key,
                      [old EXCEPT !.currentStatus = "indexing_wait",
                                  !.indexingDelayUntil = Some(now + IndexingDelaySeconds),
                                  !.updatedAt = now])
             ELSE IF doc.item.currentStatus = "indexing_wait"
                       /\ doc.item.indexingDelayUntil # None
                       /\ now >= doc.item.indexingDelayUntil[1]
               THEN PutItem(tbl, doc.key,
                      [old EXCEPT !.currentStatus = "ingestion_complete",
                                  !.indexingDelayUntil = None, !.updatedAt = now])
             ELSE tbl
      ELSE IF job.status = "FAILED"
        THEN PutItem(tbl, doc.key,
               [old EXCEPT !.currentStatus = "error",
                           !.errorMessage = Some(ErrorMessage(job.failureReasons)),
                           !.updatedAt = now])
      ELSE tbl

(* lines 119-121: the exception of one document is logged and the loop     *)
(* goes on with the next                                                   *)
AbortRun(p) == [poll EXCEPT ![p] = IdlePoller]

ContinueAfterError(p) == [poll EXCEPT ![p].i = @ + 1, ![p].status = "raised"]

(* lines 45-121: one iteration of the loop over the scanned items *)
PollDoc(p) ==
  /\ poll[p].pc = "run"
  /\ poll[p].i <= Len(poll[p].documents)
  /\ LET doc == poll[p].documents[poll[p].i]
         ingestion_job_id == doc.item.ingestionJobId
     IN  IF ingestion_job_id = Absent
           THEN /\ poll' = [poll EXCEPT ![p].i = @ + 1, ![p].status = Absent]
                /\ UNCHANGED table
           ELSE \/ /\ ingestion_job_id \in DOMAIN jobs
                   /\ table' = PollUpdate(table, doc, jobs[ingestion_job_id])
                   /\ poll' = [poll EXCEPT ![p].i = @ + 1,
                                           ![p].status = jobs[ingestion_job_id].status]
                \/ /\ poll' = ContinueAfterError(p)
                   /\ UNCHANGED table
  /\ UNCHANGED <<now, feed, respVars, s3Vars, activityLog, uploadVars, appVars, svcVars, trigVars>>

(* lines 123-129 *)
PollReturn(p) ==
  /\ poll[p].pc = "run"
  /\ poll[p].i > Len(poll[p].documents)
  /\ poll' = [poll EXCEPT ![p] = IdlePoller]
  /\ UNCHANGED <<now, feed, respVars, s3Vars, dbVars, uploadVars, appVars, svcVars, trigVars>>

Pollers == 1..NumPollers

Appenders == 1..NumAppenders

(* no request has been answered yet *)
NoStatusResponse ==
  [statusCode |-> 0, documentId |-> <<>>, currentStatus |-> Absent,
   statusMessage |-> Absent, progress |-> 0]

(* the state after deployment, with the document table holding `tbl` and   *)
(* the ingestion service the jobs `jbs`                                     *)
InitWith(tbl, jbs) ==
  /\ now = 0
  /\ processing = <<>>
  /\ audit = <<>>
  /\ metadata = <<>>
  /\ table = tbl
  /\ activityLog = <<>>
  /\ uploadResp = NoResponse
  /\ uploadReq = None
  /\ statusResp = NoStatusResponse
  /\ analysisResp = NoAnalysisResponse
  /\ nextUuid = 1
  /\ app = [a \in Appenders |-> IdleAppender]
  /\ lastWriter = <<>>
  /\ objects = <<>>
  /\ extracted = <<>>
  /\ jobs = jbs
  /\ tokenJob = <<>>
  /\ trig = [t \in Triggers |-> IdleTrigger]
  /\ nextRequest = 1
  /\ workQ = <<>>
  /\ feed = {}
  /\ poll = [p \in Pollers |-> IdlePoller]

Init == InitWith(<<>>, <<>>)

(* Sidecar store under racing appenders *)
NextChain ==
  \/ Upload
  \/ \E a \in Appenders : AppendRead(a)
  \/ \E a \in Appenders : AppendWrite(a)

SpecChain == Init /\ [][NextChain]_vars

(* Sidecar store when calls do not overlap *)
NextSeq ==
  \/ Upload
  \/ Tick
  \/ \E a \in Appenders : AppendCall(a)

SpecSeq == Init /\ [][NextSeq]_vars

(* ------------------------------ C1 ------------------------------------- *)
(* C1: in every reachable state every stored processing sidecar has a      *)
(* non-empty statusChain whose last entry's status equals currentStatus,   *)
(* also under interleaved read-modify-write appends.                       *)
CurrentStatusIsLastEntry ==
  \A k \in DOMAIN processing :
    /\ Len(processing[k].statusChain) > 0
    /\ processing[k].currentStatus =
         processing[k].statusChain[Len(processing[k].statusChain)].status

(* two calls raced on one seeded sidecar with different statuses *)
WitnessC1 ==
  \E a, b \in Appenders :
    /\ a # b
    /\ app[a].pc = "done" /\ app[b].pc = "done"
    /\ app[a].s3_key = app[b].s3_key
    /\ a \in app[b].with
    /\ app[a].call[1] # app[b].call[1]
    /\ Len(processing[get_sidecar_key(app[a].s3_key, "processing")].statusChain) >= 2

(* ------------------------------ C2 ------------------------------------- *)
IsPrefix(s, t) == Len(s) <= Len(t) /\ SubSeq(t, 1, Len(s)) = s

(* C2: when append_processing_status calls do not overlap, every step      *)
(* keeps each stored statusChain as a prefix of the chain after the step.  *)
ChainIsAppendOnly ==
  [][\A k \in DOMAIN processing :
       /\ k \in DOMAIN processing'
       /\ IsPrefix(processing[k].statusChain, processing'[k].statusChain)]_vars

(* calls in a row grew the seeded chain to three entries *)
WitnessC2 ==
  \E k \in DOMAIN processing :
    /\ Len(processing[k].statusChain) = 3
    /\ processing[k].statusChain[1].status = "upload_initiated"
    /\ processing[k].statusChain[2].status # processing[k].statusChain[3].status

(* ------------------------------ C3 ------------------------------------- *)
(* a wrote first, b wrote last, and both had read the same chain before    *)
(* either of them wrote                                                    *)
BothReadBeforeEitherWrote(a, b) ==
  /\ a # b
  /\ app[a].pc = "done" /\ app[b].pc = "done"
  /\ app[a].s3_key = app[b].s3_key
  /\ (a \in app[b].with \/ b \in app[a].with)
  /\ app[a].data = app[b].data
  /\ app[b].s3_key \in DOMAIN lastWriter
  /\ lastWriter[app[b].s3_key] = b

(* C3: when two calls both read the sidecar before either writes, the      *)
(* later write overwrites the earlier one: the stored chain is the chain   *)
(* both read plus the later writer's entry only, and both calls succeed.   *)
LaterWriterOverwrites ==
  \A a, b \in Appenders :
    BothReadBeforeEitherWrote(a, b) =>
      LET base == ProcessingOrDefault(app[a].data).statusChain
          chain == processing[get_sidecar_key(app[b].s3_key, "processing")].statusChain
      IN  /\ Len(chain) = Len(base) + 1
          /\ SubSeq(chain, 1, Len(base)) = base
          /\ chain[Len(chain)].status = app[b].call[1]
          /\ app[a].result = "ok" /\ app[b].result = "ok"

(* the race happened between two different statuses on a seeded chain,     *)
(* and the earlier writer's status is nowhere in the stored chain          *)
WitnessC3 ==
  \E a, b \in Appenders :
    /\ BothReadBeforeEitherWrote(a, b)
    /\ app[a].data # NoSuchKey
    /\ app[a].call[1] # app[b].call[1]
    /\ \A i \in 1..Len(processing[get_sidecar_key(app[b].s3_key, "processing")].statusChain) :
         processing[get_sidecar_key(app[b].s3_key, "processing")].statusChain[i].status
           # app[a].call[1]

(* Ingestion Trigger with the ingestion service *)
NextTrigger ==
  \/ Upload
  \/ \E k \in UploadedKeys : ClientPut(k)
  \/ \E t \in Triggers : TriggerInvoke(t, MaxBatch)
  \/ \E t \in Triggers : TriggerRedeliver(t)
  \/ \E t \in Triggers : TriggerRecordStart(t)
  \/ \E t \in Triggers : TriggerStartJob(t)
  \/ \E t \in Triggers : TriggerRecordFinish(t)
  \/ \E t \in Triggers : TriggerReturn(t)

SpecTrigger == Init /\ [][NextTrigger]_vars


(* The pipeline: one notification per invocation, poller runs that may     *)
(* overlap, the ingestion service and the clock                            *)
Next ==
  \/ Upload
  \/ Tick
  \/ \E k \in UploadedKeys : ClientPut(k)
  \/ \E t \in Triggers : TriggerInvoke(t, 1)
  \/ \E t \in Triggers : TriggerRecordStart(t)
  \/ \E t \in Triggers : TriggerStartJob(t)
  \/ \E t \in Triggers : TriggerRecordFinish(t)
  \/ \E t \in Triggers : TriggerReturn(t)
  \/ \E j \in DOMAIN jobs : JobAdvance(j)
  \/ \E p \in Pollers : PollScan(p)
  \/ \E p \in Pollers : PollDoc(p)
  \/ \E p \in Pollers : PollReturn(p)

Spec == Init /\ [][Next]_vars

(* The pipeline when the platform also retries deliveries *)
NextRedelivery ==
  \/ Next
  \/ \E t \in Triggers : TriggerRedeliver(t)

SpecRedelivery == Init /\ [][NextRedelivery]_vars

(* The trigger and the worker it invokes, without the poller *)
NextAnalysis ==
  \/ Upload
  \/ \E k \in UploadedKeys : ClientPut(k)
  \/ \E t \in Triggers : TriggerInvoke(t, 1)
  \/ \E t \in Triggers : TriggerRecordStart(t)
  \/ \E t \in Triggers : TriggerStartJob(t)
  \/ \E t \in Triggers : TriggerRecordFinish(t)
  \/ \E t \in Triggers : TriggerReturn(t)
  \/ \E k \in DOMAIN workQ : AnalysisRun(k)
  \/ AnalysisInvoke

SpecAnalysis == Init /\ [][NextAnalysis]_vars

(* ------------------------------ C4 ------------------------------------- *)
(* C4: every start_ingestion_job call carries the request id of its        *)
(* invocation as clientToken, so the deliveries of one request id, retries *)
(* included, get one and the same job: there are never more jobs than      *)
(* request ids.                                                            *)
RedeliveryStartsNoSecondJob ==
  /\ DOMAIN tokenJob \subseteq 1..(nextRequest - 1)
  /\ \A t \in Triggers :
       trig[t].ingestion_job_id # Absent =>
         trig[t].ingestion_job_id = tokenJob[trig[t].request_id]
  /\ Cardinality(DOMAIN jobs) = Cardinality(DOMAIN tokenJob)
  /\ Cardinality(DOMAIN jobs) <= nextRequest - 1

(* a retried delivery got the job that the first delivery had started *)
WitnessC4 ==
  \E t \in Triggers :
    /\ trig[t].attempt = 2
    /\ trig[t].ingestion_job_id = "job-1"
    /\ trig[t].ingestion_jobs >= 1
    /\ Cardinality(DOMAIN jobs) = 1

(* ------------------------------ C5 ------------------------------------- *)
IsPrimaryCreation(record) ==
  record.eventName \in CreationEvents /\ ~is_sidecar_file(record.key)

(* C5: when an invocation has ended, no primary-document entry after the   *)
(* last entry it handled is left unprocessed, also when start_ingestion_job *)
(* raised for an earlier entry.                                            *)
FailureDoesNotAbortBatch ==
  \A t \in Triggers :
    trig[t].pc = "done" =>
      \A j \in 1..Len(trig[t].records) :
        (j > trig[t].i) => ~IsPrimaryCreation(trig[t].records[j])

(* ------------------------- Status Poller steps ------------------------- *)
(* poller p has just handled the scanned item at its index i *)
PollerStepped(p) ==
  /\ poll[p].pc = "run"
  /\ poll'[p].pc = "run"
  /\ poll'[p].i = poll[p].i + 1

ScannedDoc(p) == poll[p].documents[poll[p].i]

InProgressStatuses == {"ingestion_in_progress", "indexing_wait"}
TerminalStatuses == {"ingestion_complete", "error"}

(* ------------------------------ C6 ------------------------------------- *)
(* C6: a poller step that observes COMPLETE for an item scanned as         *)
(* ingestion_in_progress sets indexing_wait and a deadline 15 seconds      *)
(* ahead, and no poller step takes a record from any status other than     *)
(* indexing_wait to ingestion_complete.                                    *)
CompleteOnlyAfterIndexingWait ==
  [][\A p \in Pollers :
       PollerStepped(p) =>
         /\ (poll'[p].status = "COMPLETE"
               /\ ScannedDoc(p).item.currentStatus = "ingestion_in_progress") =>
              /\ table'[ScannedDoc(p).key].currentStatus = "indexing_wait"
              /\ table'[ScannedDoc(p).key].indexingDelayUntil =
                   Some(now + IndexingDelaySeconds)
         /\ \A k \in DOMAIN table :
              (table'[k].currentStatus = "ingestion_complete"
                 /\ table[k].currentStatus # "ingestion_complete") =>
                table[k].currentStatus = "indexing_wait"]_vars

(* ------------------------------ C7 ------------------------------------- *)
(* C7: a poller step that observes COMPLETE for an item scanned as         *)
(* indexing_wait with deadline d marks it ingestion_complete and removes   *)
(* the deadline when now >= d and changes nothing when now < d; no record  *)
(* is marked ingestion_complete while its stored deadline lies ahead.      *)
NeverCompleteBeforeDeadline ==
  [][\A p \in Pollers :
       PollerStepped(p) =>
         /\ (poll'[p].status = "COMPLETE"
               /\ ScannedDoc(p).item.currentStatus = "indexing_wait"
               /\ ScannedDoc(p).item.indexingDelayUntil # None) =>
              IF now >= ScannedDoc(p).item.indexingDelayUntil[1]
                THEN /\ table'[ScannedDoc(p).key].currentStatus = "ingestion_complete"
                     /\ table'[ScannedDoc(p).key].indexingDelayUntil = None
                ELSE table' = table
         /\ \A k \in DOMAIN table :
              (table'[k].currentStatus = "ingestion_complete"
                 /\ table[k].currentStatus # "ingestion_complete"
                 /\ table[k].indexingDelayUntil # None) =>
                now >= table[k].indexingDelayUntil[1]]_vars

(* ------------------------------ C8 ------------------------------------- *)
(* C8: a poller step that observes FAILED sets currentStatus to error and  *)
(* errorMessage to the failure reasons: a single reason is stored as it    *)
(* is, and several reasons are all there, in order, between ', '.          *)
FailedIsRecordedVerbatim ==
  [][\A p \in Pollers :
       (PollerStepped(p) /\ poll'[p].status = "FAILED") =>
         LET doc == ScannedDoc(p)
             fr == jobs[doc.item.ingestionJobId].failureReasons
             rec == table'[doc.key]
         IN  /\ doc.item.currentStatus \in InProgressStatuses
             /\ rec.currentStatus = "error"
             /\ rec.errorMessage # None
             /\ (fr.present /\ Len(fr.reasons) = 1) => rec.errorMessage[1] = fr.reasons[1]
             /\ (fr.present /\ Len(fr.reasons) >= 1) =>
                  Split(rec.errorMessage[1], ", ") = fr.reasons]_vars

(* a job failed with two reasons and the record carries both *)
WitnessC8 ==
  \E k \in DOMAIN table :
    /\ table[k].currentStatus = "error"
    /\ table[k].errorMessage = Some(<<"quota exceeded", ", ", "bad document">>)
    /\ \E p \in Pollers : poll[p].status = "FAILED"

(* ------------------------------ C9 ------------------------------------- *)
(* C9: no poller step changes the currentStatus of a record that is        *)
(* ingestion_complete or error, also when runs overlap.                    *)
TerminalStaysTerminal ==
  [][\A p \in Pollers :
       PollerStepped(p) =>
         \A k \in DOMAIN table :
           table[k].currentStatus \in TerminalStatuses =>
             table'[k].currentStatus = table[k].currentStatus]_vars

(* ------------------------------ C10 ------------------------------------ *)
(* C10: the currentStatus of a record that is ingestion_in_progress or     *)
(* indexing_wait changes only in a poller step that observed COMPLETE or   *)
(* FAILED.                                                                 *)
InProgressLeftOnlyByPoller ==
  [][\A k \in DOMAIN table :
       (table[k].currentStatus \in InProgressStatuses
          /\ (k \notin DOMAIN table' \/ table'[k].currentStatus # table[k].currentStatus)) =>
         \E p \in Pollers :
           /\ PollerStepped(p)
           /\ ScannedDoc(p).key = k
           /\ poll'[p].status \in {"COMPLETE", "FAILED"}]_vars

(* ------------------------------ C11 ------------------------------------ *)
(* the clock keeps running while a settle deadline lies ahead *)
TickToDeadline ==
  /\ now + IndexingDelaySeconds > MaxTime
  /\ \E k \in DOMAIN table :
       table[k].indexingDelayUntil # None /\ table[k].indexingDelayUntil[1] > now
  /\ now' = now + IndexingDelaySeconds
  /\ UNCHANGED <<feed, respVars, s3Vars, dbVars, uploadVars, appVars, svcVars, trigVars, poll>>

(* poller runs that follow one another on the schedule, not overlapping *)
ScheduledPollers == {1}

NextLive ==
  \/ Upload
  \/ Tick
  \/ TickToDeadline
  \/ \E k \in UploadedKeys : ClientPut(k)
  \/ \E t \in Triggers : TriggerInvoke(t, 1)
  \/ \E t \in Triggers : TriggerRedeliver(t)
  \/ \E t \in Triggers : TriggerRecordStart(t)
  \/ \E t \in Triggers : TriggerStartJob(t)
  \/ \E t \in Triggers : TriggerRecordFinish(t)
  \/ \E t \in Triggers : TriggerReturn(t)
  \/ \E j \in DOMAIN jobs : JobAdvance(j)
  \/ \E p \in ScheduledPollers : PollScan(p)
  \/ \E p \in ScheduledPollers : PollDoc(p)
  \/ \E p \in ScheduledPollers : PollReturn(p)

(* what TriggerRecordStart and TriggerRecordFinish do to the invocation's  *)
(* position: the steps of process_s3_record seen from lambda_handler's loop *)
RecordStartStep(t) ==
  /\ trig[t].pc = "record"
  /\ trig[t].i <= Len(trig[t].records)
  /\ \/ trig' = [trig EXCEPT ![t].i = @ + 1]
     \/ trig' = [trig EXCEPT ![t].pc = "job"]

RecordFinishStep(t) ==
  /\ trig[t].pc = "finish"
  /\ trig' = [trig EXCEPT ![t].pc = "record", ![t].i = @ + 1,
                          ![t].ingestion_jobs = @ + 1]

(* every started invocation runs on, the schedule keeps starting poller    *)
(* runs, a poller run whose get_ingestion_job answers goes on, and time    *)
(* advances                                                                *)
Fairness ==
  /\ WF_vars(Tick)
  /\ WF_vars(TickToDeadline)
  /\ \A p \in ScheduledPollers :
       /\ WF_vars(PollScan(p))
       /\ SF_vars(PollDoc(p) /\ poll'[p].status # "raised")
       /\ WF_vars(PollReturn(p))
  /\ \A t \in Triggers :
       /\ WF_trig(RecordStartStep(t))
       /\ WF_vars(TriggerStartJob(t))
       /\ WF_trig(RecordFinishStep(t))
       /\ WF_vars(TriggerReturn(t))

SpecLive == Init /\ [][NextLive]_vars /\ Fairness

RecordKeys == {<<u, Uuids[i]>> : u \in Users, i \in 1..MaxDocs}

(* the trigger has stored a job id in record k and that job is COMPLETE *)
ProcessedAndJobComplete(k) ==
  /\ k \in DOMAIN table
  /\ table[k].ingestionJobId \in DOMAIN jobs
  /\ jobs[table[k].ingestionJobId].status = "COMPLETE"

(* C11: a record whose creation notification the Ingestion Trigger has     *)
(* processed and whose ingestion job reports COMPLETE eventually has       *)
(* currentStatus ingestion_complete, under fair poller runs and advancing  *)
(* time.                                                                   *)
CompleteJobLeadsToIngestionComplete ==
  \A k \in RecordKeys :
    ProcessedAndJobComplete(k) ~>
      (k \in DOMAIN table /\ table[k].currentStatus = "ingestion_complete")

(* ------------------------------ C12 ------------------------------------ *)
(* the DocumentRecord of the document stored under s3_key *)
RecordKeyOf(s3_key) ==
  <<extract_user_id_from_s3_key(s3_key)[1], extract_document_id_from_s3_key(s3_key)>>

(* C12: when the Ingestion Trigger has processed the creation event of an  *)
(* uploaded primary document, the record has gone from upload_complete     *)
(* over ingestion_started to ingestion_in_progress, it holds the job id    *)
(* that start_ingestion_job returned, and the audit sidecar has got an     *)
(* event for the Extraction Worker invocation made in that step.           *)
TriggerWalksRecordThroughIngestion ==
  [][\A t \in Triggers :
       RecordFinishStep(t) =>
         LET s3_key == trig[t].records[trig[t].i].key
             k == RecordKeyOf(s3_key)
             a == get_sidecar_key(s3_key, "audit")
         IN  /\ k \in DOMAIN table /\ k \in DOMAIN table'
             /\ table[k].currentStatus = "ingestion_started"
             /\ table'[k].currentStatus = "ingestion_in_progress"
             /\ table'[k].ingestionJobId = trig[t].ingestion_job_id
             /\ a \in DOMAIN audit'
             /\ \/ a \notin DOMAIN audit
                \/ Len(audit'[a].events) > Len(audit[a].events)]_vars

(* Upload Initiator alone: requests, storage or database writes that fail, *)
(* the client's PUT, the clock                                             *)
NextUpload ==
  \/ UploadRequest
  \/ UploadRaises
  \/ \E k \in UploadedKeys : ClientPut(k)
  \/ Tick

SpecUpload == Init /\ [][NextUpload]_vars

(* ------------------------------ C13 ------------------------------------ *)
RequestInvalid(q) ==
  \/ q.filename = <<>>
  \/ q.file_size > MaxUploadSize
  \/ q.document_type \notin valid_types

(* C13: a request with a missing filename, a fileSize over the ceiling or  *)
(* a documentType outside the allowed set is answered 400 with no write    *)
(* URL, and no sidecar, record or activity-log entry is written.           *)
RejectedUploadCreatesNothing ==
  [][(uploadVars' # uploadVars /\ RequestInvalid(uploadReq'[1])) =>
       /\ uploadResp'.statusCode = 400
       /\ uploadResp'.uploadUrl = None
       /\ UNCHANGED <<s3Vars, dbVars>>]_vars

(* an oversize request was rejected while a document of an earlier request *)
(* is in place                                                             *)
WitnessC13 ==
  /\ uploadReq # None
  /\ uploadReq[1].file_size > MaxUploadSize
  /\ uploadReq[1].filename # <<>>
  /\ uploadResp.statusCode = 400
  /\ DOMAIN table # {}

(* ------------------------------ C14 ------------------------------------ *)
(* C14: after a successful upload request the metadata, processing and     *)
(* audit sidecars and the DocumentRecord exist for the new key; the        *)
(* processing sidecar has one statusChain entry, upload_initiated, which   *)
(* is also its currentStatus; the audit sidecar has one event,             *)
(* upload_initiated; the record is upload_initiated and has no             *)
(* ingestionJobId.                                                         *)
SuccessfulUploadSeedsArtifacts ==
  [][(uploadVars' # uploadVars /\ uploadResp'.statusCode = 200) =>
       LET q == uploadReq'[1]
           s3_key == uploadResp'.s3Key[1]
           k == <<q.user_id, uploadResp'.documentId[1]>>
           p == processing'[get_sidecar_key(s3_key, "processing")]
           a == audit'[get_sidecar_key(s3_key, "audit")]
       IN  /\ get_sidecar_key(s3_key, "metadata") \in DOMAIN metadata'
           /\ get_sidecar_key(s3_key, "processing") \in DOMAIN processing'
           /\ get_sidecar_key(s3_key, "audit") \in DOMAIN audit'
           /\ k \in DOMAIN table'
           /\ Len(p.statusChain) = 1
           /\ p.statusChain[1].status = "upload_initiated"
           /\ p.currentStatus = "upload_initiated"
           /\ Len(a.events) = 1
           /\ a.events[1].action = "upload_initiated"
           /\ table'[k].currentStatus = "upload_initiated"
           /\ table'[k].ingestionJobId = Absent
           /\ table'[k].s3Key = Some(s3_key)]_vars

(* an accepted request for a filename with a '-' has been answered *)
WitnessC14 ==
  /\ uploadResp.statusCode = 200
  /\ uploadReq # None
  /\ uploadReq[1].filename = <<"my", "-", "plan", ".pdf">>
  /\ \E k \in DOMAIN table : table[k].s3Key = uploadResp.s3Key

(* ------------------------------ C15 ------------------------------------ *)
(* the documentType values of the handler's docstring (lines 113-119) *)
DocumentedTypes ==
  {<<"iep">>, <<"aba_report">>, <<"medical_record">>, <<"other">>}

(* C15: a request with a filename, a fileSize within the ceiling and a     *)
(* documentType of the documented set iep | aba_report | medical_record |  *)
(* other is answered 200 with documentId, uploadUrl, s3Key and expiresIn,  *)
(* unless a write failed.                                                  *)
DocumentedTypeIsAccepted ==
  [][(uploadVars' # uploadVars
        /\ uploadReq'[1].filename # <<>>
        /\ uploadReq'[1].file_size <= MaxUploadSize
        /\ uploadReq'[1].document_type \in DocumentedTypes
        /\ uploadResp'.statusCode # 500) =>
       /\ uploadResp'.statusCode = 200
       /\ uploadResp'.documentId # None
       /\ uploadResp'.uploadUrl # None
       /\ uploadResp'.s3Key # None
       /\ uploadResp'.expiresIn # None]_vars

(* ------------------------------ C16 ------------------------------------ *)
(* C16: the key of every accepted upload is parsed back by                 *)
(* extract_user_id_from_s3_key to the owner id and by                      *)
(* get_document_type_from_key to the documentType the Upload Initiator     *)
(* built it from, also for filenames with '/' or '-'.                      *)
KeyEncodesOwnerAndType ==
  \A x \in DOMAIN metadata :
    /\ extract_user_id_from_s3_key(metadata[x].s3Key) = Some(metadata[x].userId)
    /\ get_document_type_from_key(metadata[x].s3Key) = metadata[x].documentType

(* keys of uploads whose filename holds a '/' and whose filename holds a '-' *)
WitnessC16 ==
  /\ \E x \in DOMAIN metadata :
       \E i \in 8..Len(metadata[x].s3Key) :
         /\ metadata[x].s3Key[i] = "/"
         /\ SubSeq(metadata[x].s3Key, 1, 6) =
              <<"users", "/">> \o metadata[x].userId \o <<"/">>
                \o metadata[x].documentType \o <<"/">>
  /\ uploadResp.statusCode = 200

(* ------------------------------ C17 ------------------------------------ *)
FixedSuffixes ==
  {".metadata.json", ".extracted.json", ".processing.json", ".insights.json",
   ".audit.json"}

EndsInFixedSuffix(x) ==
  \E prefix \in {SubSeq(x, 1, n) : n \in 0..Len(x)}, suffix \in FixedSuffixes :
    x = prefix \o <<suffix>>

(* the keys in storage, the keys handed out, and the empty key *)
KnownKeys ==
  DOMAIN objects \cup DOMAIN metadata \cup DOMAIN processing \cup DOMAIN audit
    \cup DOMAIN extracted \cup {metadata[x].s3Key : x \in DOMAIN metadata} \cup {<<>>}

(* C17: is_sidecar_file(x) is true exactly for the keys x that end in one  *)
(* of the five fixed suffixes, and get_document_from_sidecar_key gives     *)
(* back k from get_sidecar_key(k, kind) for every key k and every kind.    *)
SidecarClassificationInvertible ==
  \A x \in KnownKeys :
    /\ is_sidecar_file(x) \in BOOLEAN
    /\ is_sidecar_file(x) <=> EndsInFixedSuffix(x)
    /\ \A kind \in {"metadata", "extracted", "processing", "insights", "audit"} :
         get_document_from_sidecar_key(get_sidecar_key(x, kind)) = Some(x)

(* among the keys is a primary key that itself ends in a sidecar suffix,   *)
(* with its sidecars                                                       *)
WitnessC17 ==
  \E x \in DOMAIN metadata :
    /\ is_sidecar_file(metadata[x].s3Key)
    /\ x = get_sidecar_key(metadata[x].s3Key, "metadata")
    /\ get_sidecar_key(metadata[x].s3Key, "audit") \in DOMAIN audit

(* Upload requests of every modelled shape followed by the client's PUT    *)
(* and the Ingestion Trigger                                               *)
NextIntake ==
  \/ UploadRequest
  \/ \E k \in UploadedKeys : ClientPut(k)
  \/ \E t \in Triggers : TriggerInvoke(t, 1)
  \/ \E t \in Triggers : TriggerRecordStart(t)
  \/ \E t \in Triggers : TriggerStartJob(t)
  \/ \E t \in Triggers : TriggerRecordFinish(t)
  \/ \E t \in Triggers : TriggerReturn(t)

SpecIntake == Init /\ [][NextIntake]_vars

(* ------------------------------ C18 ------------------------------------ *)
(* C18: no key the Upload Initiator allocates for a primary document is    *)
(* classified as a sidecar, so the Ingestion Trigger acts on the creation  *)
(* event of every uploaded primary document and does not skip it.          *)
UploadedDocumentIsNeverSkipped ==
  [][\A t \in Triggers :
       (/\ RecordStartStep(t)
        /\ trig[t].records[trig[t].i].eventName \in CreationEvents
        /\ trig[t].records[trig[t].i].key \in UploadedKeys) =>
         /\ ~is_sidecar_file(trig[t].records[trig[t].i].key)
         /\ trig'[t].pc = "job"]_vars

(* ------------------------------ C19 ------------------------------------ *)
SidecarKeys ==
  DOMAIN metadata \cup DOMAIN processing \cup DOMAIN audit \cup DOMAIN extracted

(* C19: when a sidecar object exists for a primary key, the primary        *)
(* document object exists at that key.                                     *)
SidecarImpliesPrimary ==
  \A x \in SidecarKeys :
    get_document_from_sidecar_key(x) # None =>
      get_document_from_sidecar_key(x)[1] \in DOMAIN objects

(* ------------------------------ C20 ------------------------------------ *)
(* the primary keys for which a sidecar or a DocumentRecord exists *)
SeededKeys ==
  {get_document_from_sidecar_key(x)[1] : x \in SidecarKeys} \cup UploadedKeys

(* C20: once an upload request has finished, also one answered 500 after   *)
(* a write failed, the DocumentRecord and the metadata, processing and     *)
(* audit sidecars of a key exist all four or not at all.                   *)
ArtifactsCreatedTogether ==
  \A k \in SeededKeys :
    /\ get_sidecar_key(k, "metadata") \in DOMAIN metadata
    /\ get_sidecar_key(k, "processing") \in DOMAIN processing
    /\ get_sidecar_key(k, "audit") \in DOMAIN audit
    /\ k \in UploadedKeys

(* --------------------------- document deletion ------------------------- *)
(* delete_object / delete_item: the key is gone afterwards, present or not *)
DeleteKey(store, key) == [x \in (DOMAIN store) \ {key} |-> store[x]]

(* handle_delete_document for the record `key`: the primary delete may     *)
(* raise (then the sidecar deletes are not reached), each sidecar delete   *)
(* may raise and is logged, and delete_item follows in every case; when    *)
(* delete_item raises the handler answers 500                              *)
handle_delete_document(key, primary_raises, raising, record_raises) ==
  /\ key \in DOMAIN table
  /\ LET s3_key == table[key].s3Key
         swept(store, kind) ==
           IF s3_key = None \/ primary_raises \/ kind \in raising
             THEN store
             ELSE DeleteKey(store, get_sidecar_key(s3_key[1], kind))
     IN  /\ objects' = IF s3_key = None \/ primary_raises
                         THEN objects ELSE DeleteKey(objects, s3_key[1])
         /\ metadata' = swept(metadata, "metadata")
         /\ extracted' = swept(extracted, "extracted")
         /\ processing' = swept(processing, "processing")
         /\ audit' = swept(audit, "audit")
  /\ table' = IF record_raises THEN table ELSE DeleteKey(table, key)
  /\ UNCHANGED <<now, feed, respVars, activityLog, uploadVars, appVars, svcVars, trigVars, poll>>

DeleteDocument ==
  \E key \in DOMAIN table, primary_raises \in BOOLEAN, record_raises \in BOOLEAN,
     raising \in SUBSET {"metadata", "extracted", "processing", "audit"} :
       handle_delete_document(key, primary_raises, raising, record_raises)

(* Upload, the client's PUT, and deletion by the owner *)
NextDelete ==
  \/ Upload
  \/ Tick
  \/ \E k \in UploadedKeys : ClientPut(k)
  \/ DeleteDocument

SpecDelete == Init /\ [][NextDelete]_vars

(* ------------------------------ C21 ------------------------------------ *)
(* what exists of the document stored under the primary key k *)
ArtifactsOf(k, objs, md, ex, pr, au, tbl) ==
  {"object" : x \in {y \in DOMAIN objs : y = k}}
    \cup {"metadata" : x \in {y \in DOMAIN md : y = get_sidecar_key(k, "metadata")}}
    \cup {"extracted" : x \in {y \in DOMAIN ex : y = get_sidecar_key(k, "extracted")}}
    \cup {"processing" : x \in {y \in DOMAIN pr : y = get_sidecar_key(k, "processing")}}
    \cup {"audit" : x \in {y \in DOMAIN au : y = get_sidecar_key(k, "audit")}}
    \cup {"record" : x \in {y \in DOMAIN tbl : tbl[y].s3Key = Some(k)}}

(* C21: a delete removes the primary object, every sidecar and the         *)
(* DocumentRecord as a unit: a step that removes any artifact of a         *)
(* document leaves none of them, so the record is never removed while the  *)
(* object or a sidecar stays.                                              *)
DeleteRemovesAllOrNothing ==
  [][\A k \in SeededKeys \cup DOMAIN objects :
       LET before == ArtifactsOf(k, objects, metadata, extracted, processing,
                                 audit, table)
           after == ArtifactsOf(k, objects', metadata', extracted', processing',
                                audit', table')
       IN  (before \ after # {}) => after = {}]_vars

(* ------------------------------ C22 ------------------------------------ *)
(* no trigger invocation and no poller run is under way *)
NoWriterUnderWay ==
  /\ \A t \in Triggers : trig[t].pc \in {"idle", "done"}
  /\ \A p \in Pollers : poll[p].pc = "idle"

(* C22: the displayed status is derivable from the processing sidecar      *)
(* alone: whenever no writer is in the middle of an update, the            *)
(* currentStatus of a DocumentRecord equals the currentStatus of the       *)
(* document's processing sidecar.                                          *)
RecordStatusEqualsSidecarStatus ==
  NoWriterUnderWay =>
    \A k \in DOMAIN table :
      (/\ table[k].s3Key # None
       /\ get_sidecar_key(table[k].s3Key[1], "processing") \in DOMAIN processing)
        => table[k].currentStatus
             = processing[get_sidecar_key(table[k].s3Key[1], "processing")].currentStatus

(* ------------------------------ C23 ------------------------------------ *)
(* C23: when the ingestion job is reported FAILED the terminal error is    *)
(* recorded in both places: a DocumentRecord in status error has a         *)
(* processing sidecar whose chain ends in an error status or whose errors  *)
(* list has an entry.                                                      *)
ErrorIsRecordedInSidecarToo ==
  \A k \in DOMAIN table :
    (table[k].currentStatus = "error" /\ table[k].s3Key # None)
      => LET sk == get_sidecar_key(table[k].s3Key[1], "processing")
         IN  /\ sk \in DOMAIN processing
             /\ \/ processing[sk].errors # <<>>
                \/ processing[sk].currentStatus = "error"

(* ------------------------------ Status Reader -------------------------- *)
(* lines 90-121: the fixed table from internal status to what is shown *)
status_map ==
  [upload_initiated |->
     [status |-> "uploading", message |-> "Uploading document...", progress |-> 10],
   upload_complete |->
     [status |-> "processing", message |-> "Processing document...", progress |-> 30],
   ingestion_started |->
     [status |-> "ingesting", message |-> "Adding to knowledge base...", progress |-> 50],
   ingestion_in_progress |->
     [status |-> "ingesting", message |-> "Adding to knowledge base...", progress |-> 70],
   ingestion_complete |->
     [status |-> "ready",
      message |-> "Document ready! You can now chat about this document.",
      progress |-> 100],
   error |->
     [status |-> "error", message |-> "Error processing document", progress |-> 0]]

(* lines 123-127: status_map.get(current_status, default) *)
FallbackIsProcessing(current_status) ==
  IF current_status \in DOMAIN status_map
    THEN status_map[current_status]
    ELSE [status |-> "processing", message |-> "Processing...", progress |-> 50]

StatusInfo(current_status) ==
  IF current_status \in DOMAIN status_map
    THEN status_map[current_status]
    ELSE [status |-> "unknown", message |-> "Processing...", progress |-> 50]

(* line 87: item.get('currentStatus', 'unknown') *)
CurrentStatusOf(item) ==
  IF item.currentStatus = Absent THEN "unknown" ELSE item.currentStatus

(* GET /documents/{documentId}/status, lines 57-145 *)
Status_lambda_handler(tbl, user_id, document_id) ==
  IF document_id = <<>>
    THEN [statusCode |-> 400, documentId |-> document_id,
          currentStatus |-> Absent, statusMessage |-> Absent, progress |-> 0]
  ELSE IF <<user_id, document_id>> \notin DOMAIN tbl
    THEN [statusCode |-> 404, documentId |-> document_id,
          currentStatus |-> Absent, statusMessage |-> Absent, progress |-> 0]
  ELSE LET status_info == StatusInfo(CurrentStatusOf(tbl[<<user_id, document_id>>]))
       IN  [statusCode |-> 200, documentId |-> document_id,
            currentStatus |-> status_info.status,
            statusMessage |-> status_info.message,
            progress |-> status_info.progress]

(* the document ids a client asks about: those of the table, one that is   *)
(* not there, and none                                                     *)
RequestedDocumentIds ==
  {k[2] : k \in DOMAIN table} \cup {<<"missing">>, <<>>}

StatusRead ==
  /\ \E user_id \in Users, document_id \in RequestedDocumentIds :
       statusResp' = Status_lambda_handler(table, user_id, document_id)
  /\ UNCHANGED <<now, feed, analysisResp, s3Vars, dbVars, uploadVars, appVars, svcVars,
                 trigVars, poll>>

(* the values currentStatus can hold: the six of the table, those the      *)
(* poller and the worker write, another string, and no attribute at all    *)
StatusValues ==
  (DOMAIN status_map)
    \cup {"indexing_wait", "ai_analysis_started", "ai_analysis_complete",
          "ai_analysis_failed", "validation_failed", "archived", Absent}

SeededKey == <<CHOOSE u \in Users : TRUE, <<"seeded">>>>

(* a table that already holds one record, in any status *)
InitStatus ==
  \E current_status \in StatusValues :
    InitWith(PutItem(<<>>, SeededKey,
                     [EmptyItem EXCEPT !.currentStatus = current_status]),
             <<>>)

NextStatus ==
  \/ Upload
  \/ Tick
  \/ StatusRead

SpecStatus == InitStatus /\ [][NextStatus]_vars

(* ------------------------------ C24 ------------------------------------ *)
ShortStatuses == {"uploading", "processing", "ingesting", "ready", "error", "unknown"}

(* the Status Reader has answered a request for a record that exists *)
StatusAnswered(user_id, document_id) ==
  /\ <<user_id, document_id>> \in DOMAIN table
  /\ statusResp' = Status_lambda_handler(table, user_id, document_id)
  /\ UNCHANGED table

WorkerAnswered == analysisResp'.invocations # analysisResp.invocations

(* the invocation `resp` answers passed validation, read the document and  *)
(* got an answer from the model                                            *)
ReachedParsing(resp) ==
  /\ validate_input(resp.event)
  /\ resp.event.s3Key \in DOMAIN objects
  /\ resp.download \in {"text", "binary"}
  /\ ~resp.ai.raises

(* some span of the text is a JSON object *)
ContainsJsonObject(text) ==
  \E i, j \in 1..Len(text) : i < j /\ IsJsonObject(SubSeq(text, i, j))

(* an opening brace is followed, somewhere, by a closing one *)
HasBraceSpan(text) ==
  \E i, j \in 1..Len(text) : i < j /\ text[i] = "{" /\ text[j] = "}"

ErrorEntries(store, sk) == IF sk \in DOMAIN store THEN Len(store[sk].errors) ELSE 0

(* C26: every worker invocation that ends in a validation error (missing   *)
(* s3Bucket or s3Key, malformed key, disallowed extension, unreadable or   *)
(* empty object) or in an unexpected failure has appended an error entry   *)
(* to a processing sidecar before it returns.                              *)
FailedInvocationLeavesErrorEntry ==
  [][(WorkerAnswered /\ analysisResp'.statusCode \in {400, 500})
       => \E sk \in DOMAIN processing' :
            ErrorEntries(processing', sk) = ErrorEntries(processing, sk) + 1]_vars

(* ------------------------------ C27 ------------------------------------ *)
(* C27: the extracted sidecar's confidence is 0.85 exactly when a JSON     *)
(* object was parsed from the AI response and 0.50 exactly when the        *)
(* extraction degraded to the raw-response fallback, whatever the keys of  *)
(* the parsed object, a top-level 'error' included.                        *)
ConfidenceFollowsParseResult ==
  [][(WorkerAnswered /\ analysisResp'.statusCode = 200)
       => LET sidecar ==
                extracted'[get_sidecar_key(analysisResp'.event.s3Key, "extracted")]
              degraded == "raw_response" \in DOMAIN sidecar.data
          IN  /\ sidecar.confidence = "0.85" <=> ~degraded
              /\ sidecar.confidence = "0.50" <=> degraded]_vars

(* -------------------- poller runs over a filled table ------------------ *)
(* The table after more documents have gone through the Ingestion Trigger  *)
(* than one scan call reads: each record is in progress with a job that    *)
(* has completed or failed, waiting for indexing with the deadline         *)
(* reached, or without a job id.                                           *)
SeedNames == <<"d1", "d2", "d3", "d4", "d5">>

SeedKeys ==
  {<<CHOOSE u \in Users : TRUE, <<SeedNames[n]>>>> : n \in 1..(ScanPageLimit + 1)}

SeedItems ==
  { [EmptyItem EXCEPT !.currentStatus = "ingestion_in_progress",
                      !.ingestionJobId = "job-1"],
    [EmptyItem EXCEPT !.currentStatus = "ingestion_in_progress",
                      !.ingestionJobId = "job-2"],
    [EmptyItem EXCEPT !.currentStatus = "indexing_wait",
                      !.ingestionJobId = "job-1",
                      !.indexingDelayUntil = Some(0)],
    [EmptyItem EXCEPT !.currentStatus = "ingestion_in_progress"] }

SeedJobs ==
  [j \in {"job-1", "job-2"} |->
     IF j = "job-1"
       THEN [status |-> "COMPLETE",
             failureReasons |-> [present |-> FALSE, reasons |-> <<>>]]
       ELSE [status |-> "FAILED",
             failureReasons |-> [present |-> TRUE,
                                 reasons |-> << <<"quota exceeded">> >>]]]

InitScan == \E tbl \in [SeedKeys -> SeedItems] : InitWith(tbl, SeedJobs)

NextScan ==
  \/ \E p \in Pollers : PollScan(p)
  \/ \E p \in Pollers : PollDoc(p)
  \/ \E p \in Pollers : PollReturn(p)

SpecScan == InitScan /\ [][NextScan]_vars

(* ------------------------------ C28 ------------------------------------ *)
(* C28: each poller run examines every record whose currentStatus is       *)
(* ingestion_in_progress or indexing_wait, however many there are: the     *)
(* documents a run works through are all the records in those statuses at  *)
(* the time of the scan.                                                   *)
RunExaminesEveryInProgressRecord ==
  [][\A p \in Pollers :
       (poll[p].pc = "idle" /\ poll'[p].pc = "run")
         => {poll'[p].documents[n].key : n \in 1..Len(poll'[p].documents)}
              = {k \in DOMAIN table : table[k].currentStatus \in InProgressStatuses}]_vars

(* ------------------------------ C29 ------------------------------------ *)
(* poller p has gone through one iteration of its loop in this step *)
PollDocStep(p) ==
  /\ poll[p].pc = "run"
  /\ poll[p].i <= Len(poll[p].documents)
  /\ poll'[p] # poll[p]

(* C29: a failure to fetch the job status or to update the record of one   *)
(* document is confined to that document: the failed iteration changes no  *)
(* record, every iteration touches at most the record of its own document  *)
(* and is followed by the next document of the same run, the other         *)
(* documents are updated from their jobs as usual, and the run ends only   *)
(* by its return after the last document.                                  *)
FailureIsConfinedToItsDocument ==
  [][\A p \in Pollers :
       /\ PollDocStep(p) =>
            LET doc == poll[p].documents[poll[p].i]
            IN  /\ poll'[p].pc = "run"
                /\ poll'[p].i = poll[p].i + 1
                /\ poll'[p].documents = poll[p].documents
                /\ \A k \in DOMAIN table :
                     k # doc.key => (k \in DOMAIN table' /\ table'[k] = table[k])
                /\ poll'[p].status = "raised" => table' = table
                /\ poll'[p].status \notin {"raised", Absent}
                     => table' = PollUpdate(table, doc, jobs[doc.item.ingestionJobId])
       /\ (poll[p].pc = "run" /\ poll'[p].pc # "run")
            => poll[p].i > Len(poll[p].documents)]_vars

(* in one run the first document, whose job has failed, raised and kept    *)
(* its status, and the second was then moved to indexing_wait              *)
WitnessC29 ==
  \E p \in Pollers :
    /\ poll[p].pc = "run"
    /\ Len(poll[p].documents) = 2
    /\ poll[p].i = 3
    /\ poll[p].status = "COMPLETE"
    /\ LET first == poll[p].documents[1]
           second == poll[p].documents[2]
       IN  /\ first.item.ingestionJobId = "job-2"
           /\ jobs["job-2"].status = "FAILED"
           /\ table[first.key].currentStatus = "ingestion_in_progress"
           /\ second.item.currentStatus = "ingestion_in_progress"
           /\ table[second.key].currentStatus = "indexing_wait"

(* ------------------------------ C30 ------------------------------------ *)
(* invocation t has dealt with the entry at its position in this step *)
EntryStep(t) ==
  /\ trig[t].pc = "record"
  /\ trig[t].i <= Len(trig[t].records)
  /\ trig'[t] # trig[t]

(* the entry is no creation event, or its key ends in a sidecar suffix *)
IsSkippedEntry(record) ==
  record.eventName \notin CreationEvents \/ EndsInFixedSuffix(record.key)

(* C30: a notification entry that is not a creation event, or whose key    *)
(* ends in a sidecar suffix, has no effect in the Ingestion Trigger: no    *)
(* tagging, no record update, no sidecar append, no job start and no       *)
(* worker invocation, however often the entry is processed; the            *)
(* invocation only moves on to its next entry.                             *)
SkippedEntryHasNoEffect ==
  [][\A t \in Triggers :
       (EntryStep(t) /\ IsSkippedEntry(trig[t].records[trig[t].i]))
         => /\ trig'[t] = [trig[t] EXCEPT !.i = @ + 1]
            /\ UNCHANGED <<objects, processing, audit, metadata, extracted, table,
                           activityLog, jobs, tokenJob, workQ>>]_vars

(* a redelivered batch whose first entry, the creation of a processing     *)
(* sidecar, has been passed again without a job or a worker invocation     *)
WitnessC30 ==
  \E t \in Triggers :
    /\ trig[t].attempt = 2
    /\ trig[t].pc = "record"
    /\ trig[t].i = 2
    /\ trig[t].records[1].eventName \in CreationEvents
    /\ EndsInFixedSuffix(trig[t].records[1].key)
    /\ jobs = <<>>
    /\ workQ = <<>>

(* ------------------------------ C31 ------------------------------------ *)
(* start_ingestion_job has raised in invocation t in this step *)
StartJobRaised(t) == trig[t].pc = "job" /\ trig'[t].pc # "finish" /\ trig'[t] # trig[t]

(* C31: when start_ingestion_job raises during an Ingestion Trigger        *)
(* invocation, lambda_handler does not raise: the invocation ends with a   *)
(* payload that has an 'error' field holding the exception message and no  *)
(* ingestionJob field.                                                     *)
RaisedStartJobReturnsErrorPayload ==
  [][\A t \in Triggers :
       StartJobRaised(t)
         => /\ trig'[t].pc = "done"
            /\ trig'[t].response.error = "start_ingestion_job raised"
            /\ trig'[t].response.status = Absent
            /\ trig'[t].response.ingestionJobs = 0]_vars

(* the second entry of a batch raised after the first had started a job *)
WitnessC31 ==
  \E t \in Triggers :
    /\ trig[t].pc = "done"
    /\ trig[t].response.error = "start_ingestion_job raised"
    /\ trig[t].response.ingestionJobs = 0
    /\ trig[t].ingestion_jobs = 1
    /\ trig[t].i = 2

(* ------------- the Ingestion Trigger while documents are deleted -------- *)
NextRace ==
  \/ Upload
  \/ \E k \in UploadedKeys : ClientPut(k)
  \/ \E t \in Triggers : TriggerInvoke(t, 1)
  \/ \E t \in Triggers : TriggerRecordStart(t)
  \/ \E t \in Triggers : TriggerStartJob(t)
  \/ \E t \in Triggers : TriggerRecordFinish(t)
  \/ \E t \in Triggers : TriggerReturn(t)
  \/ DeleteDocument

SpecRace == Init /\ [][NextRace]_vars

(* ------------------------------ C32 ------------------------------------ *)
ChainEntries(store, sk) == IF sk \in DOMAIN store THEN Len(store[sk].statusChain) ELSE 0

AuditEvents(store, sk) == IF sk \in DOMAIN store THEN Len(store[sk].events) ELSE 0

(* C32: a best-effort tagging failure in the Ingestion Trigger never       *)
(* aborts the request: the remaining steps of the entry still run, and     *)
(* the failure is logged into the document's processing or audit sidecar   *)
(* with a non-fatal marker, that is, as an entry beyond the                *)
(* ingestion_started entry and its audit event.                            *)
TaggingFailureIsLoggedInSidecar ==
  [][\A t \in Triggers :
       LET record == trig[t].records[trig[t].i]
           s3_key == record.key
           psk == get_sidecar_key(s3_key, "processing")
           ask == get_sidecar_key(s3_key, "audit")
       IN  (/\ EntryStep(t)
            /\ ~IsSkippedEntry(record)
            /\ Truthy(extract_user_id_from_s3_key(s3_key))
            /\ s3_key \notin DOMAIN objects)
             => /\ trig'[t].pc = "job"
                /\ ChainEntries(processing', psk) = ChainEntries(processing, psk) + 1
                /\ \/ ErrorEntries(processing', psk) > ErrorEntries(processing, psk)
                   \/ AuditEvents(audit', ask) > AuditEvents(audit, ask) + 1]_vars

(* ------------------------------ C33 ------------------------------------ *)
(* C33: for a primary-document entry the Ingestion Trigger appends its     *)
(* audit event after the ingestion job has been started (record set to     *)
(* upload_complete, ingestion_started appended, job started, audit event   *)
(* appended, ingestion_in_progress appended, job id persisted, worker      *)
(* invoked): a step of an invocation that adds an audit event is taken     *)
(* with the job of that entry already started, and the worker is queued    *)
(* only in a step that leaves no sidecar append of the entry to come.      *)
AuditEventFollowsJobStart ==
  [][\A t \in Triggers :
       (trig'[t] # trig[t] /\ trig[t].pc \in {"record", "job", "finish"}
          /\ trig[t].i <= Len(trig[t].records))
         => LET s3_key == trig[t].records[trig[t].i].key
                ask == get_sidecar_key(s3_key, "audit")
            IN  /\ AuditEvents(audit', ask) > AuditEvents(audit, ask)
                     => (trig[t].pc = "finish" /\ trig[t].ingestion_job_id \in DOMAIN jobs)
                /\ workQ' # workQ => trig'[t].pc = "record"]_vars

(* ------------------------------ C34 ------------------------------------ *)
(* C34: every stage that updates the DocumentRecord addresses the          *)
(* (ownerId, documentId) the Upload Initiator allocated for the storage    *)
(* key: the table holds exactly one record per uploaded document, each     *)
(* under the key made of the owner and the document id of its s3Key, and   *)
(* no record that an upload did not create.                                *)
OneRecordPerUploadedDocument ==
  /\ \A k \in DOMAIN table :
       /\ table[k].s3Key # None
       /\ k = RecordKeyOf(table[k].s3Key[1])
  /\ Cardinality(DOMAIN table) = nextUuid - 1

(* ------------------------------ C35 ------------------------------------ *)
(* 1-based position of the first opening brace of the text, 0 if none *)
FirstOpen(text) == Find(text, "{") + 1

(* the first balanced span of the text: from the first opening brace to    *)
(* the brace that closes it; empty when the brace is never closed          *)
FirstBalancedObject(text) ==
  LET s == FirstOpen(text)
      Closes(e) == Depth(SubSeq(text, s, e), e - s + 1) = 0
  IN  IF s = 0 \/ ~\E e \in s..Len(text) : Closes(e)
        THEN <<>>
        ELSE SubSeq(text, s, CHOOSE e \in s..Len(text) :
                               Closes(e) /\ \A f \in s..(e - 1) : ~Closes(f))

(* C35: the worker extracts the first balanced JSON object of the model's  *)
(* answer: whenever the answer contains a well-formed JSON object, that    *)
(* first object is what the extracted sidecar stores, also when the text   *)
(* after it holds a further object or a stray closing brace.               *)
FirstJsonObjectIsStored ==
  [][(/\ WorkerAnswered
      /\ ReachedParsing(analysisResp')
      /\ ~analysisResp'.auditRaises
      /\ IsJsonObject(FirstBalancedObject(analysisResp'.ai.text)))
       => LET s3_key == analysisResp'.event.s3Key
              sidecar == extracted'[get_sidecar_key(s3_key, "extracted")]
          IN  /\ analysisResp'.statusCode = 200
              /\ sidecar.data = JsonLoads(FirstBalancedObject(analysisResp'.ai.text))]_vars

(* ------------------------------ C36 ------------------------------------ *)
(* the statuses of the entries the step has appended to the chain of the   *)
(* processing sidecar `sk`                                                 *)
AppendedStatuses(sk) ==
  LET before == IF sk \in DOMAIN processing THEN Len(processing[sk].statusChain) ELSE 0
      chain == IF sk \in DOMAIN processing' THEN processing'[sk].statusChain ELSE <<>>
  IN  [i \in 1..(Len(chain) - before) |-> chain[before + i].status]

OutcomeStatuses == {"ai_analysis_complete", "ai_analysis_failed", "validation_failed"}

(* C36: a worker invocation that passes validation appends                 *)
(* ai_analysis_started and then exactly one outcome status; it never       *)
(* appends both ai_analysis_complete and ai_analysis_failed, also not when *)
(* the audit append fails after ai_analysis_complete was written.          *)
InvocationAppendsOneOutcome ==
  [][(WorkerAnswered /\ validate_input(analysisResp'.event))
       => LET appended ==
                AppendedStatuses(get_sidecar_key(analysisResp'.event.s3Key, "processing"))
          IN  /\ Len(appended) = 2
              /\ appended[1] = "ai_analysis_started"
              /\ appended[2] \in OutcomeStatuses]_vars

(* ------------------- the trigger behind the notification feed ---------- *)
(* the feed delivers a pending creation entry: an invocation of the        *)
(* trigger with a request id of its own                                    *)
FeedDeliver(t) ==
  /\ trig[t].pc \in {"idle", "done"}
  /\ nextRequest <= MaxDeliveries
  /\ \E e \in feed :
       /\ feed' = feed \ {e}
       /\ trig' = [trig EXCEPT ![t] = [IdleTrigger EXCEPT !.pc = "record",
                    !.request_id = nextRequest,
                    !.records = <<[eventName |-> e.eventName, key |-> e.key]>>,
                    !.i = 1, !.attempt = 1]]
  /\ nextRequest' = nextRequest + 1
  /\ UNCHANGED <<now, respVars, s3Vars, dbVars, uploadVars, appVars, svcVars, workQ, poll>>

NextFeed ==
  \/ Upload
  \/ \E k \in UploadedKeys : ClientPut(k)
  \/ FeedDeliver(1)
  \/ TriggerRecordStart(1)
  \/ TriggerStartJob(1)
  \/ TriggerRecordFinish(1)
  \/ TriggerReturn(1)

SpecFeed == Init /\ [][NextFeed]_vars

(* ------------------------------ C37 ------------------------------------ *)
(* the trigger acts on the entry: it is a creation event for a key that    *)
(* is not a sidecar                                                        *)
ActsOn(e) == e.eventName \in CreationEvents /\ ~is_sidecar_file(e.key)

(* C37: handling a creation event for a primary document never causes,     *)
(* through the trigger's own writes (its sidecar writes and the in-place   *)
(* copy that attaches the owner tag), a further creation event the trigger *)
(* acts on; one upload leads to no more job starts than objects uploaded.  *)
TriggerWritesCauseNoActedEvent ==
  /\ \A e \in feed : e.origin = "trigger" => ~ActsOn(e)
  /\ Cardinality(DOMAIN jobs) <= Cardinality(DOMAIN objects)

(* ------------------------------ C38 ------------------------------------ *)
(* what is stored for the document under the primary key k: its object,    *)
(* its sidecars, the record under its (ownerId, documentId)                *)
StoredFor(k, objs, md, ex, pr, au, tbl) ==
  ArtifactsOf(k, objs, md, ex, pr, au, tbl)
    \cup {"record" : x \in {y \in DOMAIN tbl : y = RecordKeyOf(k)}}

(* the primary keys the trigger invocations were started for *)
KeysInFlight ==
  {k \in UNION {{trig[t].records[i].key : i \in 1..Len(trig[t].records)} :
                 t \in Triggers} : ~is_sidecar_file(k)}

(* C38: after a document has been deleted, no stage still in flight for it *)
(* recreates a sidecar or a DocumentRecord: a document an invocation was   *)
(* started for and of which nothing is stored stays that way.              *)
DeletedDocumentStaysAbsent ==
  [][\A k \in KeysInFlight :
       StoredFor(k, objects, metadata, extracted, processing, audit, table) = {}
         => StoredFor(k, objects', metadata', extracted', processing', audit',
                      table') = {}]_vars

(* ------------------------------ C39 ------------------------------------ *)
IngestionChainStatuses ==
  {"upload_initiated", "upload_complete", "ingestion_in_progress", "indexing_wait",
   "ingestion_complete"}

(* the progress the Status Reader reports for the record under `key` *)
ReportedProgress(tbl, key) == Status_lambda_handler(tbl, key[1], key[2]).progress

(* C39: while only the ingestion chain writes the record, the progress the *)
(* Status Reader reports over upload_initiated, upload_complete,           *)
(* ingestion_in_progress, indexing_wait, ingestion_complete never          *)
(* decreases.                                                              *)
ProgressNeverDecreases ==
  [][\A key \in (DOMAIN table) \cap (DOMAIN table') :
       (/\ table[key].currentStatus \in IngestionChainStatuses
        /\ table'[key].currentStatus \in IngestionChainStatuses)
         => ReportedProgress(table', key) >= ReportedProgress(table, key)]_vars

(* ------------------------------ C40 ------------------------------------ *)
(* C40: in every state of a DocumentRecord, indexingDelayUntil is present  *)
(* exactly when currentStatus is indexing_wait: no transition leaves a     *)
(* stale deadline behind or an indexing_wait record without a deadline.    *)
DeadlinePresentExactlyInIndexingWait ==
  \A key \in DOMAIN table :
    (table[key].indexingDelayUntil # None) <=> (table[key].currentStatus = "indexing_wait")
====
